---- MODULE Spec2Model ----
(***************************************************************************)
(* FastFeed: the comment tree of GET /posts/{post_id}/comments             *)
(* (src/src/routers/comments.py, get_comments).                            *)
(*                                                                         *)
(* The handler reads the comment rows of one post, the like counts of      *)
(* those comments and the comments the requesting user likes, builds one   *)
(* CommentRead node per row, links the nodes                               *)
(* into a forest by parent_id and ranks every sibling list.  A node is an  *)
(* entry of comment_map; a children list holds ids, which stand for the    *)
(* references the Python lists hold.                                       *)
(***************************************************************************)
EXTENDS Integers, Sequences, FiniteSets

VARIABLES
    comments,       \* rows of the post in the order the query returned them
    likes_map,      \* comment id -> number of likes, for ids with a like row
    user_likes,     \* ids of the comments the requesting user likes
    comment_map,    \* comment id -> CommentRead node
    root_comments,  \* the list the handler returns
    pc,             \* "request" until the handler has run, then "response",
                    \* or "error" when it raised an HTTPException
    calls,          \* the running calls of get_comments, each with its own
                    \* locals and its place in the code
    comment_table,  \* table comments: the stored rows of one post
    comment_likes,  \* table comment_likes: rows <<user_id, comment_id>>
    current_active_user,  \* the user of the request for the comments
    posts,          \* table posts: the ids of the stored posts
    likes,          \* table likes: rows <<user_id, post_id>>
    sessions,       \* per database session, its like or unlike of a post:
                    \* the request, its place in the handler and its answer
    feed,           \* the request for the feed: its locals, its place in
                    \* get_feed and its response
    imagekit,       \* the storage service: the file ids of the stored files
    post_files,     \* table posts: post id -> the row's user and file
    media,          \* the request that works on a file: its place in the
                    \* handler, its locals and its answer
    thread,         \* table comments: the stored rows of all posts
    editors         \* per database session, its request that creates,
                    \* deletes or updates a comment

\* The names of a request for the comments.
request == <<comments, likes_map, user_likes, comment_map, root_comments, pc>>

\* The tables of comments and comment likes, and the user who asks.
comment_store == <<comment_table, comment_likes, current_active_user>>

\* The tables of posts and post likes, and the requests that work on them.
post_store == <<posts, likes, sessions>>

\* The storage service, the files of the posts and the request on a file.
media_store == <<imagekit, post_files, media>>

\* The comments of all posts and the requests that change them.
thread_store == <<thread, editors>>

vars == <<request, calls, comment_store, post_store, feed, media_store, thread_store>>

----------------------------------------------------------------------------
(* Bounds of the inputs.                                                   *)

MaxComments == 3    \* rows of a post whose parent links are arbitrary
MaxSiblings == 5    \* longest sibling list of a post with one sibling list
MaxLikes == 2       \* largest like count where like counts are arbitrary
MaxTime == 2        \* latest creation time where creation times are arbitrary
MaxUsers == 2       \* users who like comments and posts
MaxLiked == 2       \* rows of a post whose like rows are arbitrary
MaxCallRows == 2    \* rows of a post read by one of two running calls
MaxPosts == 1       \* stored posts
MaxUploads == 2     \* files that the storage service takes after the first
MaxReplies == 1     \* comments that are created after the first

(* Program constants.                                                      *)

None == 0           \* parent_id of a comment that is no reply
NoUser == <<>>      \* comment.user of a comment whose author is not loaded
HTTP_200_OK == 200
HTTP_201_CREATED == 201
HTTP_400_BAD_REQUEST == 400
HTTP_403_FORBIDDEN == 403
HTTP_404_NOT_FOUND == 404
HTTP_500_INTERNAL_SERVER_ERROR == 500
HTTP_502_BAD_GATEWAY == 502
SmallList == 3      \* len(children) <= 3
TopN == 3           \* [:3]

----------------------------------------------------------------------------
(* Sequences.                                                              *)

Range(s) == {s[i] : i \in DOMAIN s}

Front(s) == SubSeq(s, 1, Len(s) - 1)

Last(s) == s[Len(s)]

Take(s, n) == SubSeq(s, 1, IF n < Len(s) THEN n ELSE Len(s))

Reverse(s) == [i \in 1..Len(s) |-> s[Len(s) + 1 - i]]

\* The ids of s that are not in the set drop, in the order of s.
RECURSIVE Without(_, _)
Without(s, drop) ==
    IF s = <<>> THEN <<>>
    ELSE IF Head(s) \in drop THEN Without(Tail(s), drop)
    ELSE <<Head(s)>> \o Without(Tail(s), drop)

\* x put into the sorted sequence s behind every element whose key is not
\* greater than the key of x.
RECURSIVE InsertByKey(_, _, _)
InsertByKey(s, x, key) ==
    IF s = <<>> THEN <<x>>
    ELSE IF key[Last(s)] <= key[x] THEN Append(s, x)
    ELSE Append(InsertByKey(Front(s), x, key), Last(s))

\* list.sort(key=...) and sorted(..., key=...): ascending in key, elements of
\* equal key in their order in s.
RECURSIVE SortByKey(_, _)
SortByKey(s, key) ==
    IF s = <<>> THEN <<>>
    ELSE InsertByKey(SortByKey(Front(s), key), Last(s), key)

----------------------------------------------------------------------------
(* get_comments.                                                           *)

\* comment_ids = [c.id for c in comments]
comment_ids(rows) == {rows[i].id : i \in DOMAIN rows}

\* likes_map.get(comment.id, 0)
likes_count(lm, id) == IF id \in DOMAIN lm THEN lm[id] ELSE 0

\* The email with an empty string where the author is not loaded.
user_email_blank(user) == IF user = NoUser THEN "" ELSE user[1].email

\* user_email = "Unknown"; if comment.user: user_email = comment.user.email
user_email(user) == IF user # NoUser THEN user[1].email ELSE "Unknown"

\* A CommentRead that counts the likes of a comment without a like row as 1.
CommentRead_default_one(row, lm, ul) ==
    [id |-> row.id,
     parent_id |-> row.parent_id,
     created_at |-> row.created_at,
     email |-> user_email(row.user),
     likes_count |-> IF row.id \in DOMAIN lm THEN lm[row.id] ELSE 1,
     is_liked |-> row.id \in ul,
     children |-> <<>>]

\* CommentRead(...): the node of a row, with no children yet.
CommentRead(row, lm, ul) ==
    [id |-> row.id,
     parent_id |-> row.parent_id,
     created_at |-> row.created_at,
     email |-> user_email(row.user),
     likes_count |-> likes_count(lm, row.id),
     is_liked |-> row.id \in ul,
     children |-> <<>>]

\* First pass: one CommentRead per row.
first_pass(rows, lm, ul) ==
    [id \in comment_ids(rows) |->
        CommentRead(CHOOSE r \in Range(rows) : r.id = id, lm, ul)]

\* The second pass with its else on the inner if: a row without parent_id is
\* appended to no list.
link_else_on_inner_if(st, row) ==
    IF row.parent_id # None
    THEN IF row.parent_id \in DOMAIN st.map
         THEN [st EXCEPT !.map[row.parent_id].children = Append(@, row.id)]
         ELSE [st EXCEPT !.roots = Append(@, row.id)]
    ELSE st

\* A second pass that appends every node to root_comments, the replies too.
link_every_row_to_roots(st, row) ==
    LET linked == IF row.parent_id # None /\ row.parent_id \in DOMAIN st.map
                  THEN [st EXCEPT !.map[row.parent_id].children = Append(@, row.id)]
                  ELSE st
    IN  [linked EXCEPT !.roots = Append(@, row.id)]

\* One turn of the second pass: the row's node is appended to its parent's
\* children when the parent is in comment_map, to the roots when the row has
\* no parent_id, and to nothing when the parent_id is not in comment_map.
link(st, row) ==
    IF row.parent_id # None
    THEN IF row.parent_id \in DOMAIN st.map
         THEN [st EXCEPT !.map[row.parent_id].children = Append(@, row.id)]
         ELSE st
    ELSE [st EXCEPT !.roots = Append(@, row.id)]

\* Second pass: the rows linked in the order of the query result.
RECURSIVE second_pass(_, _)
second_pass(st, rows) ==
    IF rows = <<>> THEN st
    ELSE second_pass(link(st, Head(rows)), Tail(rows))

\* The like count as key without reverse=True.
by_likes_ascending(cm) == [id \in DOMAIN cm |-> cm[id].likes_count]

\* key=lambda x: x.likes_count, reverse=True
by_likes(cm) == [id \in DOMAIN cm |-> 0 - cm[id].likes_count]

\* key=lambda x: x.created_at
by_created_at(cm) == [id \in DOMAIN cm |-> cm[id].created_at]

\* A ranking that sorts a list of any length by like count alone.
rank_by_likes_only(cm, children) == SortByKey(children, by_likes(cm))

\* A ranking that leaves the items behind top_3 in the order it found them.
rank_rest_unsorted(cm, children) ==
    IF Len(children) <= SmallList
    THEN SortByKey(children, by_likes(cm))
    ELSE LET top_3 == Take(SortByKey(children, by_likes(cm)), TopN)
         IN  top_3 \o Without(children, Range(top_3))

\* A ranking whose rest is every item of the list, the top 3 not taken out.
rank_rest_unfiltered(cm, children) ==
    IF Len(children) <= SmallList
    THEN SortByKey(children, by_likes(cm))
    ELSE LET top_3 == Take(SortByKey(children, by_likes(cm)), TopN)
         IN  top_3 \o SortByKey(children, by_created_at(cm))

\* A ranking that sorts by like count ascending and reverses the result,
\* sorted(children, key=...)[::-1], in place of reverse=True.
rank_reversed_ascending(cm, children) ==
    LET by_likes_reversed == Reverse(SortByKey(children, by_likes_ascending(cm)))
    IN  IF Len(children) <= SmallList
        THEN by_likes_reversed
        ELSE LET top_3 == Take(by_likes_reversed, TopN)
                 rest == SortByKey(Without(children, Range(top_3)), by_created_at(cm))
             IN  top_3 \o rest

\* A ranking with rest.reverse() in place of rest.sort(key=...).
rank_rest_reversed(cm, children) ==
    IF Len(children) <= SmallList
    THEN SortByKey(children, by_likes(cm))
    ELSE LET top_3 == Take(SortByKey(children, by_likes(cm)), TopN)
         IN  top_3 \o Reverse(Without(children, Range(top_3)))

\* The body of sort_children up to its recursion: the new order of one
\* children list.
rank(cm, children) ==
    IF Len(children) <= SmallList
    THEN SortByKey(children, by_likes(cm))
    ELSE LET top_3 == Take(SortByKey(children, by_likes(cm)), TopN)
             top_3_ids == Range(top_3)
             rest == SortByKey(Without(children, top_3_ids), by_created_at(cm))
         IN  top_3 \o rest

\* sort_children(node.children) for the node of the id owner: the list is
\* ranked in place, then sort_children runs on every child of the new list.
RECURSIVE sort_children(_, _), sort_each(_, _)
sort_children(cm, owner) ==
    IF cm[owner].children = <<>> THEN cm
    ELSE LET ranked == rank(cm, cm[owner].children)
         IN  sort_each([cm EXCEPT ![owner].children = ranked], ranked)

\* The loop of sort_children over the first three children only.
sort_each_first_three(cm, list) ==
    LET pinned == Take(list, TopN)
        step[i \in 0..Len(pinned)] ==
            IF i = 0 THEN cm ELSE sort_children(step[i - 1], pinned[i])
    IN  step[Len(pinned)]

\* for child in children: sort_children(child.children)
sort_each(cm, list) ==
    IF list = <<>> THEN cm
    ELSE sort_each(sort_children(cm, Head(list)), Tail(list))

\* for root in root_comments: sort_children(root.children)
RECURSIVE sort_under_roots(_, _)
sort_under_roots(cm, roots) ==
    IF roots = <<>> THEN cm
    ELSE sort_under_roots(sort_children(cm, Head(roots)), Tail(roots))

\* The roots ranked like a children list.
sort_roots_like_children(cm, roots) == rank(cm, roots)

\* root_comments.sort(key=lambda x: x.likes_count, reverse=True)
sort_roots(cm, roots) == SortByKey(roots, by_likes(cm))

\* A handler that answers a post without comments with 404.
forest_not_found_when_empty(rows, lm, ul) ==
    IF rows = <<>> THEN [status |-> HTTP_404_NOT_FOUND, map |-> <<>>, roots |-> <<>>]
    ELSE LET built == second_pass([map |-> first_pass(rows, lm, ul), roots |-> <<>>], rows)
             roots == sort_roots(built.map, built.roots)
         IN  [status |-> HTTP_200_OK,
              map |-> sort_under_roots(built.map, roots), roots |-> roots]

\* The forest get_comments returns for the rows, the like counts and the
\* comments the requesting user likes: [] at once when there are no rows.
forest(rows, lm, ul) ==
    IF rows = <<>> THEN [status |-> HTTP_200_OK, map |-> <<>>, roots |-> <<>>]
    ELSE LET built == second_pass([map |-> first_pass(rows, lm, ul), roots |-> <<>>], rows)
             roots == sort_roots(built.map, built.roots)
         IN  [status |-> HTTP_200_OK,
              map |-> sort_under_roots(built.map, roots), roots |-> roots]

----------------------------------------------------------------------------
(* The inputs: the rows of one post and the like counts of its comments.   *)

\* The email addresses of the users.
Emails == <<"ann@fastfeed.test", "bob@fastfeed.test", "cy@fastfeed.test", "dee@fastfeed.test">>

\* The users; a user is known by a number.
Users == 1..MaxUsers

\* comment.user of row i as selectinload(Comment.user) leaves it: the author,
\* or nothing for the rows in lost, whose author is no longer stored.
LoadedUser(i, lost) ==
    IF i \in lost THEN NoUser
    ELSE <<[email |-> Emails[((i - 1) % Len(Emails)) + 1]]>>

\* An input of n rows: row i has id i, the parent par[i] and the creation
\* time tm[i]; the authors of the rows in lost are not loaded.
RowsBy(n, par, tm, lost) ==
    [i \in 1..n |-> [id |-> i, parent_id |-> par[i], created_at |-> tm[i],
                      user |-> LoadedUser(i, lost)]]

\* An input of n rows whose authors are all loaded.
Rows(n, par, tm) == RowsBy(n, par, tm, {})

\* select comment_id, count(user_id) from comment_likes where comment_id in
\* ids group by comment_id, as a dict: the rows <<user, comment>> of the table
\* counted by comment.
likes_query(table, ids) ==
    [c \in {l[2] : l \in {k \in table : k[2] \in ids}} |->
        Cardinality({l \in table : l[2] = c})]

\* The query for the likes of the user without its filter on user_id.
user_likes_query_any_user(table, ids, user) ==
    {l[2] : l \in {k \in table : k[2] \in ids}}

\* select comment_id from comment_likes where comment_id in ids and
\* user_id = user, as a set.
user_likes_query(table, ids, user) ==
    {l[2] : l \in {k \in table : k[2] \in ids /\ k[1] = user}}

\* select comment_id, count(user_id) ... group by comment_id: only comments
\* with a like have a row.
LikesOf(n, lk) == [i \in {j \in 1..n : lk[j] > 0} |-> lk[i]]

RECURSIVE Ancestor(_, _, _, _)
Ancestor(par, n, i, steps) ==
    IF par[i] = None \/ par[i] > n THEN FALSE
    ELSE IF steps = 0 THEN TRUE
    ELSE Ancestor(par, n, par[i], steps - 1)

\* No row is its own ancestor.
Acyclic(par, n) == \A i \in 1..n : ~Ancestor(par, n, i, n)

Injective(f) == \A i, j \in DOMAIN f : f[i] = f[j] => i = j

\* f on the last k of n rows, and low on the rows before them.
Pad(n, k, f, low) == [i \in 1..n |-> IF i > n - k THEN f[i - (n - k)] ELSE low]

\* The parent links with one long sibling list of k rows: k roots; a root
\* with k replies; a root, its reply and k replies to the reply.
WideShapes(k) ==
    { [n |-> k, par |-> [i \in 1..k |-> None]],
      [n |-> k + 1, par |-> [i \in 1..(k + 1) |-> IF i = 1 THEN None ELSE 1]],
      [n |-> k + 2, par |-> [i \in 1..(k + 2) |-> IF i = 1 THEN None ELSE IF i = 2 THEN 1 ELSE 2]] }

\* The tables of comments and comment likes are not part of the run.
NoCommentStore ==
    /\ comment_table = <<>>
    /\ comment_likes = {}
    /\ current_active_user = None

\* The tables of posts and post likes are not part of the run.
NoPostStore ==
    /\ posts = {}
    /\ likes = {}
    /\ sessions = <<>>

\* No request for the feed is part of the run.
NoFeed == feed = <<>>

\* The storage service and the files of the posts are not part of the run.
NoMediaStore ==
    /\ imagekit = {}
    /\ post_files = <<>>
    /\ media = <<>>

\* The comments of all posts are not part of the run.
NoThreadStore ==
    /\ thread = {}
    /\ editors = <<>>

\* The state of a request that has read the rows, the like counts and the
\* likes of the requesting user.
Read(rows, lm, ul) ==
    /\ comments = rows
    /\ likes_map = lm
    /\ user_likes = ul
    /\ comment_map = <<>>
    /\ root_comments = <<>>
    /\ pc = "request"
    /\ calls = <<>>
    /\ NoCommentStore
    /\ NoPostStore
    /\ NoFeed
    /\ NoMediaStore
    /\ NoThreadStore

\* The state before the request: the rows and the like rows are stored, the
\* requesting user likes none of the comments.
Stored(n, par, lk, tm) == Read(Rows(n, par, tm), LikesOf(n, lk), {})

\* Values of k siblings in the order of the input: rising, falling, all equal.
Rising(k) == [i \in 1..k |-> i]

Falling(k) == [i \in 1..k |-> k + 1 - i]

Level(k) == [i \in 1..k |-> 1]

Minus1(f) == [i \in DOMAIN f |-> f[i] - 1]

\* Up to MaxComments rows with any parent links: no parent, another row of
\* the input before or behind it, or the id n + 1 of no row of the input.
\* The like counts rise or fall in the order of the input or are all 0.
GeneralInputs ==
    \E n \in 0..MaxComments :
        \E par \in [1..n -> 0..(n + 1)], lk \in {Rising(n), Falling(n), Level(n)} :
            /\ Acyclic(par, n)
            /\ Stored(n, par, Minus1(lk), Rising(n))

\* Up to MaxComments rows with parent links that close a cycle: a row that
\* is its own parent, two rows that are each other's parent, a longer cycle,
\* and rows that hang from a cycle.
CyclicInputs ==
    \E n \in 1..MaxComments :
        \E par \in [1..n -> 0..(n + 1)], lk \in {Rising(n), Falling(n), Level(n)} :
            /\ ~Acyclic(par, n)
            /\ Stored(n, par, Minus1(lk), Rising(n))

\* Up to MaxLiked rows, all roots or each the reply to the row before it,
\* with any like rows of the users, any requesting user, and any rows whose
\* author is not loaded.
RenderInputs ==
    \E n \in 1..MaxLiked :
        \E table \in SUBSET (Users \X (1..n)), viewer \in Users, lost \in SUBSET (1..n),
           par \in {[i \in 1..n |-> None], [i \in 1..n |-> i - 1]} :
            Read(RowsBy(n, par, Rising(n), lost),
                 likes_query(table, 1..n),
                 user_likes_query(table, 1..n, viewer))

\* A post with one long sibling list of k rows that have the like counts lk
\* and the creation times tm.
Wide(k, lk, tm) ==
    \E sh \in WideShapes(k) :
        Stored(sh.n, sh.par, Pad(sh.n, k, lk, 0), Pad(sh.n, k, tm, 1))

\* Sibling lists of 2 to MaxSiblings rows with any like counts up to MaxLikes,
\* created in the order of the input, against it, or all at once.
LikesInputs ==
    \E k \in 2..MaxSiblings :
        \E lk \in [1..k -> 0..MaxLikes], tm \in {Rising(k), Falling(k), Level(k)} :
            Wide(k, lk, tm)

\* Long sibling lists with any creation times up to MaxTime, with like counts
\* that fall or rise in the order of the input or are all 0.
TimesInputs ==
    \E k \in (TopN + 1)..MaxSiblings :
        \E tm \in [1..k -> 1..MaxTime], lk \in {Rising(k), Falling(k), Level(k)} :
            Wide(k, Minus1(lk), tm)

\* Long sibling lists of pairwise different like counts and creation times:
\* one of the two in any order, the other rising or falling.
DistinctInputs ==
    \E k \in (TopN + 1)..MaxSiblings :
        \E p \in [1..k -> 1..k] :
            /\ Injective(p)
            /\ \E q \in {Rising(k), Falling(k)} :
                \/ Wide(k, Minus1(p), q)
                \/ Wide(k, Minus1(q), p)

\* A root with TopN + 1 replies, one of which has two replies of its own.
NestedInputs ==
    LET k == TopN + 1
        n == k + 3
    IN  \E j \in 2..(k + 1), lk \in [1..(k + 2) -> 0..MaxLikes] :
            Stored(n,
                   [i \in 1..n |-> IF i = 1 THEN None ELSE IF i <= k + 1 THEN 1 ELSE j],
                   Pad(n, k + 2, lk, 0),
                   [i \in 1..n |-> i])

\* A root with TopN + 1 replies, each of which has TopN + 1 replies of its
\* own; the replies to a reply are created latest first, and the like counts
\* of the replies to the g-th reply are those of the replies to the root,
\* moved on by g places.
TwoLevelInputs ==
    LET k == TopN + 1
        n == 1 + k + k * k
        group(i) == (i - k - 2) \div k
        place(i) == (i - k - 2) % k
    IN  \E lk \in [1..k -> 0..MaxLikes] :
            Stored(n,
                   [i \in 1..n |-> IF i = 1 THEN None ELSE IF i <= k + 1 THEN 1 ELSE 2 + group(i)],
                   [i \in 1..n |-> IF i = 1 THEN 0
                                   ELSE IF i <= k + 1 THEN lk[i - 1]
                                   ELSE lk[((place(i) + group(i) + 1) % k) + 1]],
                   [i \in 1..n |-> IF i <= k + 1 THEN i ELSE 2 * n - i])

\* The sibling lists of the examples: like counts 5, 1, 5, and like counts
\* 10, 0, 10, 0, 3 created in this order.
ExampleLikes == {<<5, 1, 5>>, <<10, 0, 10, 0, 3>>}

ExampleInputs ==
    \E lk \in ExampleLikes :
        \E sh \in WideShapes(Len(lk)) :
            Stored(sh.n, sh.par, Pad(sh.n, Len(lk), lk, 0),
                   Pad(sh.n, Len(lk), [i \in 1..Len(lk) |-> i], 1))

----------------------------------------------------------------------------
(* The state machine: a request for the comments of a post is answered.    *)

Init ==
    \/ GeneralInputs
    \/ LikesInputs
    \/ TimesInputs
    \/ DistinctInputs
    \/ NestedInputs
    \/ TwoLevelInputs
    \/ ExampleInputs
    \/ CyclicInputs
    \/ RenderInputs

get_comments ==
    /\ pc = "request"
    /\ LET f == forest(comments, likes_map, user_likes)
       IN  /\ comment_map' = f.map
           /\ root_comments' = f.roots
           /\ pc' = IF f.status = HTTP_200_OK THEN "response" ELSE "error"
    /\ UNCHANGED <<comments, likes_map, user_likes, calls, comment_store, post_store, feed, media_store, thread_store>>

Next == get_comments

Spec == Init /\ [][Next]_vars

----------------------------------------------------------------------------
(* The returned forest.                                                    *)

Done == pc = "response"

Likes(id) == comment_map[id].likes_count

Created(id) == comment_map[id].created_at

Children(id) == comment_map[id].children

\* The nodes of the lists, counted through their children.
RECURSIVE CountNodes(_)
CountNodes(list) ==
    IF list = <<>> THEN 0
    ELSE 1 + CountNodes(Children(Head(list))) + CountNodes(Tail(list))

\* The ids of the nodes of the lists and of their descendants in the map cm.
RECURSIVE NodesOf(_, _)
NodesOf(cm, list) ==
    IF list = <<>> THEN {}
    ELSE {Head(list)} \cup NodesOf(cm, cm[Head(list)].children) \cup NodesOf(cm, Tail(list))

\* The nodes of the returned forest.
Returned == NodesOf(comment_map, root_comments)

\* What the caller sees of a forest: the root list and the node of every id
\* under it.
Visible(f) ==
    [roots |-> f.roots, nodes |-> [x \in NodesOf(f.map, f.roots) |-> f.map[x]]]

\* The row of the input with the id.
RowOf(id) == CHOOSE r \in Range(comments) : r.id = id

\* The rows whose parent_id names no row of the input.
Dangling ==
    {r \in Range(comments) :
        r.parent_id # None /\ r.parent_id \notin comment_ids(comments)}

\* The ids of the rows with the parent_id, in the order of the input.
RECURSIVE RowsWithParent(_, _)
RowsWithParent(rows, parent) ==
    IF rows = <<>> THEN <<>>
    ELSE IF Head(rows).parent_id = parent
         THEN <<Head(rows).id>> \o RowsWithParent(Tail(rows), parent)
         ELSE RowsWithParent(Tail(rows), parent)

\* The replies to the comment, and with None the comments that are no reply,
\* in the order of the input.
InputSiblings(parent) == RowsWithParent(comments, parent)

\* The list holds every id of the set once.
ListsExactly(list, ids) ==
    /\ Range(list) = ids
    /\ Len(list) = Cardinality(ids)

\* No item of the list is behind an item of a smaller like count.
ByLikesDescending(list) ==
    \A i, j \in DOMAIN list : i < j => Likes(list[i]) >= Likes(list[j])

\* The first TopN items are in descending order of like count and none of
\* them has a smaller like count than an item behind them; the items behind
\* them are in ascending order of creation time.
PinnedThenChronological(list) ==
    /\ \A i, j \in DOMAIN list :
            (i <= TopN /\ i < j) => Likes(list[i]) >= Likes(list[j])
    /\ \A i, j \in DOMAIN list :
            (TopN < i /\ i < j) => Created(list[i]) <= Created(list[j])

\* The ordering policy of a sibling list.
Ranked(list) ==
    IF Len(list) <= SmallList THEN ByLikesDescending(list)
    ELSE PinnedThenChronological(list)

\* Some item behind the first TopN has a smaller like count than a later one.
TailAgainstLikes(list) ==
    \E i, j \in DOMAIN list : TopN < i /\ i < j /\ Likes(list[i]) < Likes(list[j])

\* Some item behind the first TopN was created later than a later one.
TailAgainstTime(list) ==
    \E i, j \in DOMAIN list : TopN < i /\ i < j /\ Created(list[i]) > Created(list[j])

----------------------------------------------------------------------------
(* Tree assembly.                                                          *)

\* C1: for a non-empty input the returned forest, counted through the
\* children lists, has as many nodes as the input has records.
C1_Coverage ==
    (Done /\ comments # <<>>) => CountNodes(root_comments) = Len(comments)

\* C2: a record whose parent_id names no record of the input is in the root
\* list of the returned forest.
C2_DanglingAtRoot ==
    Done => \A r \in Dangling : r.id \in Range(root_comments)

\* C10: a record without parent_id is in the root list of the returned forest
\* and in the children list of no node.
C10_RootPlacement ==
    Done => \A r \in Range(comments) :
                r.parent_id = None =>
                    /\ r.id \in Range(root_comments)
                    /\ \A x \in DOMAIN comment_map : r.id \notin Range(Children(x))

\* A forest was returned for an input with a record without parent_id and a
\* reply to it.
C10_Witness ==
    /\ Done
    /\ \E r, q \in Range(comments) :
            /\ r.parent_id = None
            /\ q.parent_id = r.id
            /\ r.id \in Range(root_comments)
            /\ q.id \in Range(Children(r.id))

----------------------------------------------------------------------------
(* Ranking.                                                                *)

C4_PinnedThenChronological ==
    Done => \A x \in Returned :
                Len(Children(x)) > TopN =>
                    /\ ListsExactly(Children(x), Range(InputSiblings(x)))
                    /\ PinnedThenChronological(Children(x))

\* Five replies with the like counts 10, 0, 10, 0, 3, created in this order,
\* were returned as first, third, fifth, second, fourth.
C4_Witness ==
    /\ Done
    /\ \E x \in Returned :
        LET in == InputSiblings(x)
        IN  /\ Len(in) = 5
            /\ [i \in 1..5 |-> Likes(in[i])] = <<10, 0, 10, 0, 3>>
            /\ \A i \in 1..4 : Created(in[i]) < Created(in[i + 1])
            /\ Children(x) = <<in[1], in[3], in[5], in[2], in[4]>>
            /\ TailAgainstLikes(Children(x)) = FALSE

\* C5: a sibling list of at most 3 items, the root list or a children list,
\* is in descending order of like count.
C5_SmallListsByLikes ==
    Done =>
        /\ Len(root_comments) <= SmallList => ByLikesDescending(root_comments)
        /\ \A x \in Returned :
                Len(Children(x)) <= SmallList => ByLikesDescending(Children(x))

\* Three replies with the like counts 5, 1, 5 were returned as first, third,
\* second.
C5_Witness ==
    /\ Done
    /\ \E x \in Returned :
        LET in == InputSiblings(x)
        IN  /\ Len(in) = 3
            /\ [i \in 1..3 |-> Likes(in[i])] = <<5, 1, 5>>
            /\ Children(x) = <<in[1], in[3], in[2]>>

\* C6: the children list of every node of the returned forest, at any depth
\* and wherever the node stands in its own sibling list, holds the replies
\* to the node once and is ranked.
C6_RankedAtEveryDepth ==
    Done => \A x \in Returned :
                /\ ListsExactly(Children(x), Range(InputSiblings(x)))
                /\ Ranked(Children(x))

\* A node behind the third of a list of more than 3 siblings has replies that
\* were returned in another order than they were read in, and the node and
\* its siblings each have more than 3 replies.
C6_Witness ==
    /\ Done
    /\ \E p \in Returned :
        /\ Len(Children(p)) > TopN
        /\ \A i \in DOMAIN Children(p) : Len(Children(Children(p)[i])) > TopN
        /\ \E i \in DOMAIN Children(p) :
            /\ i > TopN
            /\ Children(Children(p)[i]) # InputSiblings(Children(p)[i])

----------------------------------------------------------------------------
(* The order of the input.                                                 *)

\* The rows in the order p.
Reordered(rows, p) == [i \in DOMAIN rows |-> rows[p[i]]]

\* The rows at the places a and b exchanged.
Exchange(n, a, b) == [i \in 1..n |-> IF i = a THEN b ELSE IF i = b THEN a ELSE i]

\* The first d rows moved behind the others.
Rotation(n, d) == [i \in 1..n |-> ((i + d - 1) % n) + 1]

\* The forest of the state is the forest of the same rows in the order p.
SameForestInOrder(p) ==
    Visible(forest(Reordered(comments, p), likes_map, user_likes))
        = Visible([map |-> comment_map, roots |-> root_comments])

\* The forest of the state is the forest of the same rows read in another
\* order: with any two rows exchanged, rotated by any number of rows, and
\* reversed.  For up to 3 rows these are all the orders there are.
SameForestInEveryOrder ==
    LET n == Len(comments)
    IN  /\ \A a \in 1..n : \A b \in (a + 1)..n : SameForestInOrder(Exchange(n, a, b))
        /\ \A d \in 1..(n - 1) : SameForestInOrder(Rotation(n, d))
        /\ SameForestInOrder(Falling(n))

\* No two siblings, roots or replies to one comment, have the same like
\* count, and no two replies to one comment have the same creation time.
TieFree ==
    \A i, j \in DOMAIN comments :
        (i # j /\ comments[i].parent_id = comments[j].parent_id) =>
            /\ likes_count(likes_map, comments[i].id) # likes_count(likes_map, comments[j].id)
            /\ comments[i].parent_id # None =>
                    comments[i].created_at # comments[j].created_at

\* C7 as stated: the returned forest, the order of the roots and of every
\* children list included, is the same for every order of the same records.
C7_InputOrderNeverLeaks ==
    Done => SameForestInEveryOrder

\* C7 as amended: the returned forest is the same for every order of the same
\* records when no two siblings have the same like count and no two replies
\* to one comment have the same creation time.
C7_InputOrderLeaksOnlyThroughTies ==
    (Done /\ TieFree) => SameForestInEveryOrder

\* A forest was returned for tie-free records, with a children list of more
\* than TopN + 1 replies that is not in the order of the input and whose
\* replies behind the third are not in the order of their like counts.
C7_Witness ==
    /\ Done
    /\ TieFree
    /\ \E x \in Returned :
        /\ Len(Children(x)) > TopN + 1
        /\ Children(x) # InputSiblings(x)
        /\ TailAgainstLikes(Children(x))

----------------------------------------------------------------------------
(* Ties.                                                                   *)

\* The place of the record with the id in the input.
InputPlace(id) == CHOOSE i \in DOMAIN comments : comments[i].id = id

\* The item a stands before the item b in a stable descending sort by like
\* count: it has more likes, or as many and an earlier place in the input.
BeforeByLikes(a, b) ==
    \/ Likes(a) > Likes(b)
    \/ Likes(a) = Likes(b) /\ InputPlace(a) < InputPlace(b)

\* The part of a sibling list that like counts order: the whole root list,
\* a whole children list of at most 3 items, and of a longer children list
\* the first 3 items, each against every item behind it.
StableByLikes(list, n) ==
    \A i, j \in DOMAIN list : (i <= n /\ i < j) => BeforeByLikes(list[i], list[j])

\* C8: where like counts order a sibling list, items of higher count stand
\* before items of lower count and items of equal count stand in the order of
\* the input: in the root list, in a children list of at most 3 items, and in
\* the choice and the order of the 3 pinned items of a longer children list.
C8_StableTieBreaking ==
    Done =>
        /\ StableByLikes(root_comments, Len(root_comments))
        /\ \A x \in Returned :
                StableByLikes(Children(x),
                              IF Len(Children(x)) <= SmallList
                              THEN Len(Children(x)) ELSE TopN)

\* A children list of more than 3 replies was returned in which the third and
\* the fourth reply have the same like count, the replies were not read in
\* the order of their creation, and a reply of one more like was read last.
C8_Witness ==
    /\ Done
    /\ \E x \in Returned :
        LET list == Children(x)
            in == InputSiblings(x)
        IN  /\ Len(list) > TopN
            /\ Likes(list[TopN]) = Likes(list[TopN + 1])
            /\ InputPlace(list[TopN]) < InputPlace(list[TopN + 1])
            /\ Likes(in[Len(in)]) > Likes(in[1])
            /\ list[1] = in[Len(in)]
            /\ TailAgainstTime(in)

\* The like counts of the items of the list are pairwise different.
DistinctLikes(list) ==
    \A i, j \in DOMAIN list : i # j => Likes(list[i]) # Likes(list[j])

\* C9: ranking again a returned sibling list of pairwise different like
\* counts, the root list or a children list of any length at any depth,
\* gives the list back in the same order.
C9_RankingIdempotent ==
    Done =>
        /\ DistinctLikes(root_comments) =>
                sort_roots(comment_map, root_comments) = root_comments
        /\ \A x \in Returned :
                DistinctLikes(Children(x)) =>
                    rank(comment_map, Children(x)) = Children(x)

\* A children list of more than TopN + 1 replies of pairwise different like
\* counts was returned in another order than it was read in, with the replies
\* behind the third in another order than before, and ranks to itself.
C9_Witness ==
    /\ Done
    /\ \E x \in Returned :
        /\ Len(Children(x)) > TopN + 1
        /\ DistinctLikes(Children(x))
        /\ Children(x) # InputSiblings(x)
        /\ Without(Children(x), Range(Take(Children(x), TopN)))
                # Without(InputSiblings(x), Range(Take(Children(x), TopN)))
        /\ rank(comment_map, Children(x)) = Children(x)

----------------------------------------------------------------------------
(* Rendering.                                                              *)

\* The node of the returned forest or of comment_map with the id.
Node(id) == comment_map[id]

\* C12: a comment whose id has no entry in likes_map has a node with
\* likes_count 0 and is_liked false, and the request is answered.
C12_MissingLikesDefault ==
    pc # "request" =>
        /\ pc = "response"
        /\ \A r \in Range(comments) :
                r.id \notin DOMAIN likes_map =>
                    /\ r.id \in DOMAIN comment_map
                    /\ Node(r.id).likes_count = 0
                    /\ Node(r.id).is_liked = FALSE

\* A forest was returned with a comment without a like row beside a comment
\* that the requesting user and another user like.
C12_Witness ==
    /\ Done
    /\ \E a, b \in Returned :
            /\ a \notin DOMAIN likes_map
            /\ Node(a).likes_count = 0
            /\ ~Node(a).is_liked
            /\ Node(b).likes_count > 1
            /\ Node(b).is_liked

\* The rows with every author loaded.
WithAuthors(rows) == [i \in DOMAIN rows |-> [rows[i] EXCEPT !.user = LoadedUser(i, {})]]

\* The root list and the children list of every node under it.
Shape(f) ==
    [roots |-> f.roots,
     lists |-> [x \in NodesOf(f.map, f.roots) |-> f.map[x].children]]

\* C13: a comment whose author is not loaded has a node with the email
\* "Unknown", a comment whose author is loaded has the author's email, the
\* request is answered, and the returned forest has the nodes and the order
\* it has when every author is loaded.
C13_UnknownAuthor ==
    pc # "request" =>
        /\ pc = "response"
        /\ \A r \in Range(comments) :
                /\ r.id \in DOMAIN comment_map
                /\ Node(r.id).email = IF r.user = NoUser THEN "Unknown" ELSE r.user[1].email
        /\ Shape([map |-> comment_map, roots |-> root_comments])
                = Shape(forest(WithAuthors(comments), likes_map, user_likes))

\* A forest was returned in which a reply whose author is not loaded stands
\* under a comment whose author is loaded.
C13_Witness ==
    /\ Done
    /\ \E a, b \in Returned :
            /\ b \in Range(Children(a))
            /\ RowOf(a).user # NoUser
            /\ RowOf(b).user = NoUser
            /\ Node(a).email # "Unknown"
            /\ Node(b).email = "Unknown"

\* C14: a request that read no rows is answered with an empty root list.
C14_EmptyInput ==
    (pc # "request" /\ comments = <<>>) =>
        /\ pc = "response"
        /\ root_comments = <<>>

\* A request that read no rows was answered.
C14_Witness ==
    /\ Done
    /\ comments = <<>>
    /\ likes_map = <<>>
    /\ root_comments = <<>>

----------------------------------------------------------------------------
(* Ownership.                                                              *)

\* The sibling lists of the returned forest: the root list and the children
\* list of every returned node.
SiblingLists ==
    {<<None, root_comments>>} \cup {<<x, Children(x)>> : x \in Returned}

\* No id stands twice in the list.
NoRepeat(list) == \A i, j \in DOMAIN list : list[i] = list[j] => i = j

\* C16: in the returned forest no node stands twice in one sibling list, no
\* node stands in two sibling lists, and no node is under itself.
C16_SiblingListsPartition ==
    Done =>
        /\ \A l \in SiblingLists : NoRepeat(l[2])
        /\ \A l, m \in SiblingLists : l # m => Range(l[2]) \cap Range(m[2]) = {}
        /\ \A x \in Returned : x \notin NodesOf(comment_map, Children(x))

\* A forest was returned with a root that has more than 3 replies, one of
\* which has replies of its own.
C16_Witness ==
    /\ Done
    /\ \E x \in Range(root_comments) :
            /\ Len(Children(x)) > TopN
            /\ \E y \in Range(Children(x)) : Len(Children(y)) > 1
    /\ Cardinality(Returned) = Len(comments)

----------------------------------------------------------------------------
(* get_comments, statement by statement, in calls that run side by side.   *)
(* A call has its own rows, like counts and user likes, its own comment_map *)
(* and root_comments, its place pc in the code, the index i of its loop    *)
(* over the rows or the roots, and the frames of sort_children it has      *)
(* entered: the id owner of the node whose children list the frame works   *)
(* on and the index k of the frame's loop over that list, 0 before the     *)
(* list is ranked.                                                         *)

Calls == {1, 2}

\* The depth of sort_children calls at which Python raises RecursionError,
\* above the depth of any forest of MaxCallRows rows.
RecursionLimit == MaxCallRows + 2

\* comment_map and root_comments as names of the module, one dict and one
\* list for every call.
scope_module_level(c) == 1

\* comment_map = {} and root_comments = [] are locals: the call c works on
\* the dict and the list of its own frame.
scope(c) == c

\* What the call c reads: its own rows, like counts, user likes and place,
\* and the comment_map and root_comments of its scope.
view(cs, c) ==
    [cs[c] EXCEPT !.comment_map = cs[scope(c)].comment_map,
                  !.root_comments = cs[scope(c)].root_comments]

\* The calls after the call c has changed what it reads from v0 into v.
store(cs, c, v) ==
    LET own == [cs EXCEPT ![c] = [v EXCEPT !.comment_map = cs[c].comment_map,
                                           !.root_comments = cs[c].root_comments]]
    IN  [own EXCEPT ![scope(c)].comment_map = v.comment_map,
                    ![scope(c)].root_comments = v.root_comments]

\* if not comments: return []
empty_check(v) ==
    IF v.comments = <<>> THEN [v EXCEPT !.pc = "response"]
    ELSE [v EXCEPT !.pc = "first pass", !.i = 1]

\* The dict d with d[key] = value.
SetItem(d, key, value) ==
    [x \in DOMAIN d \cup {key} |-> IF x = key THEN value ELSE d[x]]

\* The dict d without the key.
Pop(d, key) == [x \in DOMAIN d \ {key} |-> d[x]]

\* The place after the turn i of a loop over the list: the next turn, or the
\* statement behind the loop.
NextTurn(v, list, behind) ==
    IF v.i < Len(list) THEN [v EXCEPT !.i = v.i + 1]
    ELSE [v EXCEPT !.pc = behind, !.i = 1]

\* A first pass that takes the like count out of likes_map:
\* likes_map.pop(comment.id, 0).
first_pass_turn_pop(v) ==
    LET comment == v.comments[v.i]
        comment_read == CommentRead(comment, v.likes_map, v.user_likes)
    IN  NextTurn([v EXCEPT !.comment_map = SetItem(@, comment.id, comment_read),
                           !.likes_map = Pop(@, comment.id)],
                 v.comments, "second pass")

\* One turn of the first pass: comment_map[comment.id] = comment_read.
first_pass_turn(v) ==
    LET comment == v.comments[v.i]
        comment_read == CommentRead(comment, v.likes_map, v.user_likes)
    IN  NextTurn([v EXCEPT !.comment_map = SetItem(@, comment.id, comment_read)],
                 v.comments, "second pass")

\* One turn of the second pass.
second_pass_turn(v) ==
    LET st == link([map |-> v.comment_map, roots |-> v.root_comments], v.comments[v.i])
    IN  NextTurn([v EXCEPT !.comment_map = st.map, !.root_comments = st.roots],
                 v.comments, "sort roots")

\* root_comments.sort(key=lambda x: x.likes_count, reverse=True)
sort_roots_call(v) ==
    [v EXCEPT !.root_comments = sort_roots(v.comment_map, @),
              !.pc = "sort children", !.i = 1, !.stack = <<>>]

\* for root in root_comments: sort_children(root.children), and the return
\* behind the loop.
roots_loop_turn(v) ==
    IF v.i > Len(v.root_comments) THEN [v EXCEPT !.pc = "response"]
    ELSE [v EXCEPT !.i = v.i + 1,
                   !.stack = <<[owner |-> v.root_comments[v.i], k |-> 0]>>]

\* sort_children from its entry to its loop: return when the list is empty,
\* rank the list in place otherwise.
sort_children_enter(v) ==
    LET top == Last(v.stack)
        children == v.comment_map[top.owner].children
    IN  IF children = <<>> THEN [v EXCEPT !.stack = Front(@)]
        ELSE [v EXCEPT !.comment_map[top.owner].children = rank(v.comment_map, children),
                       !.stack[Len(v.stack)].k = 1]

\* for child in children: sort_children(child.children), and the return
\* behind the loop.  A call deeper than the recursion limit raises
\* RecursionError, which the handler answers with 500.
sort_children_loop_turn(v) ==
    LET top == Last(v.stack)
        children == v.comment_map[top.owner].children
    IN  IF top.k > Len(children) THEN [v EXCEPT !.stack = Front(@)]
        ELSE IF Len(v.stack) >= RecursionLimit THEN [v EXCEPT !.pc = "error"]
        ELSE [v EXCEPT !.stack = Append([@ EXCEPT ![Len(v.stack)].k = top.k + 1],
                                        [owner |-> children[top.k], k |-> 0])]

\* The parent links of n rows read by a call: no replies; each row the reply
\* to the row before it, or to the row behind it; every row but the first a
\* reply to the first; a ring of n rows, which is a row that is its own
\* parent when n is 1; a chain that hangs from a row that is its own parent;
\* a chain that hangs from a row whose parent is not among the rows.
CallShapes(n) ==
    { [i \in 1..n |-> None],
      [i \in 1..n |-> i - 1],
      [i \in 1..n |-> IF i = n THEN None ELSE i + 1],
      [i \in 1..n |-> IF i = 1 THEN None ELSE 1],
      [i \in 1..n |-> (i % n) + 1],
      [i \in 1..n |-> IF i = 1 THEN 1 ELSE i - 1],
      [i \in 1..n |-> IF i = 1 THEN n + 1 ELSE i - 1] }

\* What a call has read when it reaches the empty check: up to MaxCallRows
\* rows, like counts that rise or fall in the order of the rows, and the
\* last row liked by the requesting user if it is liked at all.
CallInputs ==
    UNION { { [comments |-> Rows(n, par, Rising(n)),
               likes_map |-> LikesOf(n, Minus1(lk)),
               user_likes |-> {i \in {n} : i >= 1 /\ lk[i] > 1}] :
              par \in CallShapes(n), lk \in {Rising(n), Falling(n)} } :
            n \in 0..MaxCallRows }

\* The locals of a call at the empty check.
Frame(in) ==
    [comments |-> in.comments, likes_map |-> in.likes_map, user_likes |-> in.user_likes,
     comment_map |-> <<>>, root_comments |-> <<>>,
     pc |-> "request", i |-> 1, stack |-> <<>>]

\* No request of the one-step model is under way.
NoRequest ==
    /\ comments = <<>>
    /\ likes_map = <<>>
    /\ user_likes = {}
    /\ comment_map = <<>>
    /\ root_comments = <<>>
    /\ pc = "idle"

CallsInit ==
    /\ NoRequest
    /\ NoCommentStore
    /\ NoPostStore
    /\ NoFeed
    /\ NoMediaStore
    /\ NoThreadStore
    /\ \E ins \in [Calls -> CallInputs] : calls = [c \in Calls |-> Frame(ins[c])]

\* The call c runs the statement at its place.
Runs(c, statement(_)) ==
    /\ calls' = store(calls, c, statement(view(calls, c)))
    /\ UNCHANGED <<request, comment_store, post_store, feed, media_store, thread_store>>

call_empty_check(c) ==
    /\ calls[c].pc = "request"
    /\ Runs(c, empty_check)

call_first_pass(c) ==
    /\ calls[c].pc = "first pass"
    /\ Runs(c, first_pass_turn)

call_second_pass(c) ==
    /\ calls[c].pc = "second pass"
    /\ Runs(c, second_pass_turn)

call_sort_roots(c) ==
    /\ calls[c].pc = "sort roots"
    /\ Runs(c, sort_roots_call)

call_roots_loop(c) ==
    /\ calls[c].stack = <<>>
    /\ calls[c].pc = "sort children"
    /\ Runs(c, roots_loop_turn)

call_sort_children_enter(c) ==
    /\ calls[c].stack # <<>>
    /\ Last(calls[c].stack).k = 0
    /\ calls[c].pc = "sort children"
    /\ Runs(c, sort_children_enter)

call_sort_children_loop(c) ==
    /\ calls[c].stack # <<>>
    /\ Last(calls[c].stack).k > 0
    /\ calls[c].pc = "sort children"
    /\ Runs(c, sort_children_loop_turn)

\* The next statement of the call c.
CallStep(c) ==
    \/ call_empty_check(c)
    \/ call_first_pass(c)
    \/ call_second_pass(c)
    \/ call_sort_roots(c)
    \/ call_roots_loop(c)
    \/ call_sort_children_enter(c)
    \/ call_sort_children_loop(c)

CallsNext == \E c \in Calls : CallStep(c)

\* Every call that can run a statement runs one in the end.
CallsSpec ==
    /\ CallsInit
    /\ [][CallsNext]_vars
    /\ \A c \in Calls : WF_vars(CallStep(c))

----------------------------------------------------------------------------
(* Termination, interference and the inputs of a call.                     *)

\* The call has returned its root list.
Returns(c) == calls[c].pc = "response"

\* The ids under the ids of S in the map cm, S included.
RECURSIVE Under(_, _)
Under(cm, S) ==
    LET T == S \cup UNION {Range(cm[x].children) : x \in S}
    IN  IF T = S THEN S ELSE Under(cm, T)

\* What the caller of the call c sees: the root list and the node of every
\* id under it.
Result(c) ==
    LET v == view(calls, c)
    IN  [roots |-> v.root_comments,
         nodes |-> [x \in Under(v.comment_map, Range(v.root_comments)) |-> v.comment_map[x]]]

\* The rows of the call c include a parent chain that leads back to its
\* first row.
Cyclic(c) ==
    LET rows == calls[c].comments
    IN  /\ rows # <<>>
        /\ ~Acyclic([i \in DOMAIN rows |-> rows[i].parent_id], Len(rows))

\* C15: in the end every call of get_comments has returned its root list, on
\* acyclic rows, on a ring of rows, on a row that is its own parent and on
\* rows that hang from either.
C15_EveryCallReturns == <>(\A c \in Calls : Returns(c))

\* Two calls have returned: one on two rows that are each other's parent,
\* with each node in the other's children list and no root, and one on a row
\* that is its own parent.
C15_Witness ==
    \E c, d \in Calls :
        /\ Returns(c) /\ Returns(d)
        /\ Cyclic(c) /\ Cyclic(d)
        /\ Len(calls[c].comments) = 2
        /\ calls[c].comment_map[1].children = <<2>>
        /\ calls[c].comment_map[2].children = <<1>>
        /\ calls[c].root_comments = <<>>
        /\ calls[d].comments[1].parent_id = calls[d].comments[1].id
        /\ calls[d].comment_map[1].children[1] = 1

\* C17: whatever the other calls do, a call never fails, and the forest it
\* returns is the forest of its own rows, like counts and user likes.
C17_CallsDoNotInterfere ==
    \A c \in Calls :
        /\ calls[c].pc # "error"
        /\ Returns(c) =>
                Result(c) = Visible(forest(calls[c].comments, calls[c].likes_map,
                                           calls[c].user_likes))

\* A call has returned a forest with a reply while another call, on other
\* rows, is inside sort_children.
C17_Witness ==
    \E c, d \in Calls :
        /\ Returns(c)
        /\ calls[c].root_comments # <<>>
        /\ \E x \in Range(calls[c].root_comments) : calls[c].comment_map[x].children # <<>>
        /\ calls[d].pc = "sort children"
        /\ calls[d].stack # <<>>
        /\ calls[d].comments # calls[c].comments
        /\ calls[d].likes_map # calls[c].likes_map

\* The rows, the like counts and the user likes a call has read.
Inputs(c) == <<calls[c].comments, calls[c].likes_map, calls[c].user_likes>>

\* C18: no statement of get_comments changes the rows, the like counts or
\* the user likes that the call has read.
C18_InputsUnchanged == [][\A c \in Calls : Inputs(c)' = Inputs(c)]_vars

\* A call has returned two roots in another order than it read them, the
\* second with a like of the requesting user, and still has its two rows,
\* its like count and its user like.
C18_Witness ==
    \E c \in Calls :
        /\ Returns(c)
        /\ calls[c].root_comments = <<2, 1>>
        /\ calls[c].comment_map[2].is_liked
        /\ calls[c].comment_map[2].likes_count = 1
        /\ Len(calls[c].comments) = 2
        /\ calls[c].comments[1].id = 1
        /\ DOMAIN calls[c].likes_map = {2}
        /\ calls[c].user_likes = {2}

----------------------------------------------------------------------------
(* The likes of comments: like_comment and unlike_comment change the table *)
(* comment_likes while a request for the comments reads the tables, one    *)
(* query after the other, and builds the forest.  The table has the        *)
(* primary key (user_id, comment_id), so it is a set of pairs; like_comment *)
(* and unlike_comment are taken from their first check to their commit in  *)
(* one step, which reaches every content of the table that their           *)
(* interleaving reaches.                                                   *)

\* The ids a request can name for a comment: those of the stored rows and
\* one more, of no stored row.
CommentIds == 1..(Len(comment_table) + 1)

\* The table comment_likes after like_comment: unchanged with 404 when the
\* comment is not stored, unchanged when the user likes it already, with the
\* row of the user and the comment otherwise.
like_comment_commit(table, rows, user, comment_id) ==
    IF comment_id \notin comment_ids(rows) THEN table
    ELSE IF <<user, comment_id>> \in table THEN table
    ELSE table \cup {<<user, comment_id>>}

\* The table comment_likes after unlike_comment: unchanged when the user
\* does not like the comment, without the row otherwise.
unlike_comment_commit(table, user, comment_id) ==
    IF <<user, comment_id>> \notin table THEN table
    ELSE table \ {<<user, comment_id>>}

like_comment(user, comment_id) ==
    /\ comment_likes' = like_comment_commit(comment_likes, comment_table, user, comment_id)
    /\ UNCHANGED <<request, calls, comment_table, current_active_user, post_store, feed, media_store, thread_store>>

unlike_comment(user, comment_id) ==
    /\ comment_likes' = unlike_comment_commit(comment_likes, user, comment_id)
    /\ UNCHANGED <<request, calls, comment_table, current_active_user, post_store, feed, media_store, thread_store>>

\* get_comments up to 'if not comments': the rows of the post are read.
read_comments(user) ==
    /\ pc = "idle"
    /\ current_active_user' = user
    /\ comments' = comment_table
    /\ pc' = IF comment_table = <<>> THEN "response" ELSE "comments read"
    /\ UNCHANGED <<likes_map, user_likes, comment_map, root_comments, calls,
                   comment_table, comment_likes, post_store, feed, media_store, thread_store>>

\* get_comments: likes_map is read.
read_likes ==
    /\ pc = "comments read"
    /\ likes_map' = likes_query(comment_likes, comment_ids(comments))
    /\ pc' = "likes read"
    /\ UNCHANGED <<comments, user_likes, comment_map, root_comments, calls,
                   comment_store, post_store, feed, media_store, thread_store>>

\* get_comments: user_likes is read, and the tree can be built.
read_user_likes ==
    /\ pc = "likes read"
    /\ user_likes' = user_likes_query(comment_likes, comment_ids(comments), current_active_user)
    /\ pc' = "request"
    /\ UNCHANGED <<comments, likes_map, comment_map, root_comments, calls,
                   comment_store, post_store, feed, media_store, thread_store>>

\* A post with two stored comments, the second a comment of its own or a
\* reply to the first, which nobody likes yet, and no request.
CommentLikesInit ==
    /\ NoRequest
    /\ calls = <<>>
    /\ NoPostStore
    /\ NoFeed
    /\ NoMediaStore
    /\ NoThreadStore
    /\ \E par \in {<<None, None>>, <<None, 1>>} : comment_table = Rows(Len(par), par, Rising(Len(par)))
    /\ comment_likes = {}
    /\ current_active_user = None

CommentLikesNext ==
    \/ \E user \in Users, comment_id \in CommentIds : like_comment(user, comment_id)
    \/ \E user \in Users, comment_id \in CommentIds : unlike_comment(user, comment_id)
    \/ \E user \in Users : read_comments(user)
    \/ read_likes
    \/ read_user_likes
    \/ get_comments

CommentLikesSpec == CommentLikesInit /\ [][CommentLikesNext]_vars

\* The users who like the comment.
Likers(comment_id) == {u \in Users : <<u, comment_id>> \in comment_likes}

\* The table comment_likes holds what the request read from it: no like or
\* unlike has changed the likes of the post's comments since.
TableAsRead ==
    /\ likes_map = likes_query(comment_likes, comment_ids(comments))
    /\ user_likes = user_likes_query(comment_likes, comment_ids(comments), current_active_user)

\* C11: after any likes and unlikes of the users, a request for the comments
\* that reads the table as they left it gives every comment the number of
\* users who like it as likes_count, and is_liked exactly when the user of
\* the request is one of them.
C11_LikesReported ==
    (Done /\ TableAsRead) =>
        \A r \in Range(comments) :
            /\ Node(r.id).likes_count = Cardinality(Likers(r.id))
            /\ Node(r.id).is_liked = (current_active_user \in Likers(r.id))

\* The comments were returned to a user who likes the first comment with
\* another user, and not the second, which another user likes.
C11_Witness ==
    /\ Done
    /\ TableAsRead
    /\ Node(1).likes_count = 2
    /\ Node(1).is_liked
    /\ Node(2).likes_count = 1
    /\ ~Node(2).is_liked
    /\ Likers(2) # {}

----------------------------------------------------------------------------
(* The likes of posts: like_post and unlike_post in two database sessions. *)
(* A handler looks for the post and for the like, and commits afterwards;  *)
(* the other session can run between the two.  The table likes has the     *)
(* primary key (user_id, post_id), so it is a set of pairs.                *)

Sessions == {1, 2}

\* The ids a request can name for a post: those of the stored posts and one
\* more, of no stored post.
PostIds == 1..(MaxPosts + 1)

\* A session without a request.
Idle == [op |-> "none", user |-> None, post_id |-> None, pc |-> "idle",
         status |-> 0, message |-> ""]

\* A request at the start of its handler.
Arrived(op, user, post_id) ==
    [op |-> op, user |-> user, post_id |-> post_id, pc |-> "check",
     status |-> 0, message |-> ""]

\* The request with its answer.
Answered(r, status, message) ==
    [r EXCEPT !.pc = "answered", !.status = status, !.message = message]

\* The request on its way to the commit.
ToCommit(r) == [r EXCEPT !.pc = "commit"]

\* like_post without its look for an existing like.
like_post_check_no_existing(r, stored, table) ==
    IF r.post_id \notin stored THEN Answered(r, HTTP_404_NOT_FOUND, "Post not found")
    ELSE ToCommit(r)

\* like_post without its look for the post.
like_post_check_missing_post(r, stored, table) ==
    IF <<r.user, r.post_id>> \in table
    THEN Answered(r, HTTP_201_CREATED, "Post already liked")
    ELSE ToCommit(r)

\* like_post up to session.add: 404 when the post is not stored, "Post
\* already liked" when the like is, on to the commit otherwise.
like_post_check(r, stored, table) ==
    IF r.post_id \notin stored THEN Answered(r, HTTP_404_NOT_FOUND, "Post not found")
    ELSE IF <<r.user, r.post_id>> \in table
         THEN Answered(r, HTTP_201_CREATED, "Post already liked")
         ELSE ToCommit(r)

\* unlike_post that answers 404 when there is no like.
unlike_post_check_not_found(r, stored, table) ==
    IF r.post_id \notin stored THEN Answered(r, HTTP_404_NOT_FOUND, "Post not found")
    ELSE IF <<r.user, r.post_id>> \notin table
         THEN Answered(r, HTTP_404_NOT_FOUND, "Like not found")
         ELSE ToCommit(r)

\* unlike_post up to session.delete: 404 when the post is not stored, "Post
\* not liked yet" when the like is not, on to the commit otherwise.
unlike_post_check(r, stored, table) ==
    IF r.post_id \notin stored THEN Answered(r, HTTP_404_NOT_FOUND, "Post not found")
    ELSE IF <<r.user, r.post_id>> \notin table
         THEN Answered(r, HTTP_200_OK, "Post not liked yet")
         ELSE ToCommit(r)

\* A request reaches the handler in a session that runs no request.
Arrives(s, op, user, post_id) ==
    /\ sessions[s].pc \in {"idle", "answered"}
    /\ sessions' = [sessions EXCEPT ![s] = Arrived(op, user, post_id)]
    /\ UNCHANGED <<request, calls, comment_store, feed, media_store, thread_store, posts, likes>>

\* POST /posts/{post_id}/like by the user.
like_post(s, user, post_id) ==
    /\ user \in Users
    /\ Arrives(s, "like_post", user, post_id)

\* DELETE /posts/{post_id}/like by the user.
unlike_post(s, user, post_id) ==
    /\ user \in Users
    /\ Arrives(s, "unlike_post", user, post_id)

like_post_checks(s) ==
    /\ sessions[s].op = "like_post"
    /\ sessions[s].pc = "check"
    /\ sessions' = [sessions EXCEPT ![s] = like_post_check(@, posts, likes)]
    /\ UNCHANGED <<request, calls, comment_store, feed, media_store, thread_store, posts, likes>>

unlike_post_checks(s) ==
    /\ sessions[s].op = "unlike_post"
    /\ sessions[s].pc = "check"
    /\ sessions' = [sessions EXCEPT ![s] = unlike_post_check(@, posts, likes)]
    /\ UNCHANGED <<request, calls, comment_store, feed, media_store, thread_store, posts, likes>>

\* session.add(like); await session.commit(): the row is inserted.
like_post_commits(s) ==
    /\ sessions[s].op = "like_post"
    /\ sessions[s].pc = "commit"
    /\ <<sessions[s].user, sessions[s].post_id>> \notin likes
    /\ likes' = likes \cup {<<sessions[s].user, sessions[s].post_id>>}
    /\ sessions' = [sessions EXCEPT ![s] = Answered(@, HTTP_201_CREATED, "Post liked successfully")]
    /\ UNCHANGED <<request, calls, comment_store, feed, media_store, thread_store, posts>>

\* The commit of a like whose row the other session has inserted since the
\* check: the primary key rejects the insert, and the handler answers the
\* IntegrityError with 500.
like_post_commit_rejected(s) ==
    /\ sessions[s].op = "like_post"
    /\ sessions[s].pc = "commit"
    /\ <<sessions[s].user, sessions[s].post_id>> \in likes
    /\ sessions' = [sessions EXCEPT ![s] = Answered(@, HTTP_500_INTERNAL_SERVER_ERROR, "Internal server error")]
    /\ UNCHANGED <<request, calls, comment_store, feed, media_store, thread_store, posts, likes>>

\* await session.delete(like); await session.commit(): the row is deleted.
unlike_post_commits(s) ==
    /\ sessions[s].op = "unlike_post"
    /\ sessions[s].pc = "commit"
    /\ <<sessions[s].user, sessions[s].post_id>> \in likes
    /\ likes' = likes \ {<<sessions[s].user, sessions[s].post_id>>}
    /\ sessions' = [sessions EXCEPT ![s] = Answered(@, HTTP_200_OK, "Post unliked successfully")]
    /\ UNCHANGED <<request, calls, comment_store, feed, media_store, thread_store, posts>>

\* The commit of an unlike whose row the other session has deleted since the
\* check: the DELETE matches no row, which the session reports with a
\* warning, and the handler answers 200, or with StaleDataError, which the
\* handler answers with 500.
unlike_post_commit_no_row(s) ==
    /\ sessions[s].op = "unlike_post"
    /\ sessions[s].pc = "commit"
    /\ <<sessions[s].user, sessions[s].post_id>> \notin likes
    /\ \/ sessions' = [sessions EXCEPT ![s] = Answered(@, HTTP_200_OK, "Post unliked successfully")]
       \/ sessions' = [sessions EXCEPT ![s] = Answered(@, HTTP_500_INTERNAL_SERVER_ERROR, "Internal server error")]
    /\ UNCHANGED <<request, calls, comment_store, feed, media_store, thread_store, posts, likes>>

\* The stored posts, which nobody likes yet, and two sessions without a
\* request.
PostLikesInit ==
    /\ NoRequest
    /\ calls = <<>>
    /\ NoCommentStore
    /\ NoFeed
    /\ NoMediaStore
    /\ NoThreadStore
    /\ posts = 1..MaxPosts
    /\ likes = {}
    /\ sessions = [s \in Sessions |-> Idle]

PostLikesNext ==
    \E s \in Sessions :
        \/ \E user \in Users, post_id \in PostIds : like_post(s, user, post_id)
        \/ \E user \in Users, post_id \in PostIds : unlike_post(s, user, post_id)
        \/ like_post_checks(s)
        \/ like_post_commits(s)
        \/ like_post_commit_rejected(s)
        \/ unlike_post_checks(s)
        \/ unlike_post_commits(s)
        \/ unlike_post_commit_no_row(s)

PostLikesSpec == PostLikesInit /\ [][PostLikesNext]_vars

----------------------------------------------------------------------------
(* Liking and unliking a post.                                             *)

\* The session s runs a statement of its request, which is the op on a
\* stored post and is at the place pc.
Steps(s, op, at) ==
    /\ sessions[s].op = op
    /\ sessions[s].pc = at
    /\ sessions[s].post_id \in posts
    /\ sessions'[s] # sessions[s]

\* The like row of the request of the session s.
RowOfRequest(s) == <<sessions[s].user, sessions[s].post_id>>

\* The session s has answered the op of the user on the post with the
\* status and the message.
Answer(s, op, user, post_id, status, message) ==
    sessions[s] = Answered(Arrived(op, user, post_id), status, message)

\* C19: a like_post of a stored post that finds no like of the user goes on
\* to its commit, which inserts the like and answers 201 "Post liked
\* successfully" when the like is still absent; a like_post that finds the
\* like answers 201 "Post already liked" and leaves the table likes as it is.
C19_LikePostIdempotent ==
    [][\A s \in Sessions :
        /\ (Steps(s, "like_post", "check") /\ RowOfRequest(s) \notin likes) =>
                /\ sessions'[s] = ToCommit(sessions[s])
                /\ likes' = likes
        /\ (Steps(s, "like_post", "commit") /\ RowOfRequest(s) \notin likes) =>
                /\ sessions'[s] = Answered(sessions[s], HTTP_201_CREATED, "Post liked successfully")
                /\ likes' = likes \cup {RowOfRequest(s)}
        /\ (Steps(s, "like_post", "check") /\ RowOfRequest(s) \in likes) =>
                /\ sessions'[s] = Answered(sessions[s], HTTP_201_CREATED, "Post already liked")
                /\ likes' = likes]_vars

\* A like of a post by a user was answered 201 "Post liked successfully" and
\* a like of the same post by the same user 201 "Post already liked", and
\* the table holds the one like.
C19_Witness ==
    \E s, t \in Sessions, user \in Users, post_id \in posts :
        /\ Answer(s, "like_post", user, post_id, HTTP_201_CREATED, "Post liked successfully")
        /\ Answer(t, "like_post", user, post_id, HTTP_201_CREATED, "Post already liked")
        /\ likes = {<<user, post_id>>}

\* C20: an unlike_post of a stored post that finds the like of the user goes
\* on to its commit, which deletes the like and answers 200 "Post unliked
\* successfully" when the like is still there; an unlike_post that finds no
\* like answers 200 "Post not liked yet" and leaves the table likes as it is.
C20_UnlikePost ==
    [][\A s \in Sessions :
        /\ (Steps(s, "unlike_post", "check") /\ RowOfRequest(s) \in likes) =>
                /\ sessions'[s] = ToCommit(sessions[s])
                /\ likes' = likes
        /\ (Steps(s, "unlike_post", "commit") /\ RowOfRequest(s) \in likes) =>
                /\ sessions'[s] = Answered(sessions[s], HTTP_200_OK, "Post unliked successfully")
                /\ likes' = likes \ {RowOfRequest(s)}
        /\ (Steps(s, "unlike_post", "check") /\ RowOfRequest(s) \notin likes) =>
                /\ sessions'[s] = Answered(sessions[s], HTTP_200_OK, "Post not liked yet")
                /\ likes' = likes]_vars

\* An unlike of a post by a user was answered 200 "Post unliked
\* successfully" and an unlike of the same post by the same user 200 "Post
\* not liked yet", and the table holds no like of the user for the post.
C20_Witness ==
    \E s, t \in Sessions, user \in Users, post_id \in posts :
        /\ Answer(s, "unlike_post", user, post_id, HTTP_200_OK, "Post unliked successfully")
        /\ Answer(t, "unlike_post", user, post_id, HTTP_200_OK, "Post not liked yet")
        /\ <<user, post_id>> \notin likes

----------------------------------------------------------------------------
(* Liking a post that is not stored.                                       *)

\* C21: a like_post that names a post that is not stored answers 404 at its
\* look for the post and leaves the table likes as it is; the table never
\* holds a like of a post that is not stored.
C21_LikeMissingPost ==
    /\ [](\A row \in likes : row[2] \in posts)
    /\ [][\A s \in Sessions :
            (/\ sessions[s].op = "like_post"
             /\ sessions[s].post_id \notin posts
             /\ sessions'[s] # sessions[s]
             /\ sessions'[s].op = sessions[s].op
             /\ sessions[s].pc # "answered") =>
                /\ sessions[s].pc = "check"
                /\ sessions'[s] = Answered(sessions[s], HTTP_404_NOT_FOUND, "Post not found")
                /\ likes' = likes]_vars

\* A like of a post that is not stored was answered 404 while the table
\* holds the likes of the stored posts.
C21_Witness ==
    \E s \in Sessions, user \in Users, post_id \in PostIds \ posts :
        /\ Answer(s, "like_post", user, post_id, HTTP_404_NOT_FOUND, "Post not found")
        /\ likes # {}
        /\ \A row \in likes : row[2] \in posts

----------------------------------------------------------------------------
(* Likes of one user for one post that arrive together.                    *)

\* C26: the table holds at most one like per user and post, and every
\* like_post of a stored post that has been answered was answered 201,
\* "Post liked successfully" or "Post already liked".
C26_ConcurrentLikesAnswered201 ==
    \A s \in Sessions :
        (/\ sessions[s].op = "like_post"
         /\ sessions[s].pc = "answered"
         /\ sessions[s].post_id \in posts) =>
            /\ sessions[s].status = HTTP_201_CREATED
            /\ sessions[s].message \in {"Post liked successfully", "Post already liked"}

----------------------------------------------------------------------------
(* The feed: get_feed reads the posts, the like counts and the likes of    *)
(* the requesting user, one query after the other, while a session likes   *)
(* and unlikes posts, and returns one PostFeedItem per post.  Of the       *)
(* columns of a post the model keeps the id; the other columns are copied  *)
(* into the item as they are stored.                                       *)

\* The fields that PostFeedItem declares, its own and those of PostResponse.
PostFeedItem_fields ==
    {"id", "user_id", "caption", "url", "file_type", "file_name",
     "created_at", "updated_at", "is_owner", "email"}

\* BaseModel.model_validate of a dict: the model sets no 'extra', so the
\* keys of the dict that are no fields of the model are ignored.
model_validate(fields, data) ==
    [k \in (DOMAIN data) \cap fields |-> data[k]]

\* select(Post).order_by(Post.created_at.desc()): the ids of the stored
\* posts, the latest first; a post with a larger id was created later.
RECURSIVE feed_posts_query(_)
feed_posts_query(stored) ==
    IF stored = {} THEN <<>>
    ELSE LET latest == CHOOSE p \in stored : \A q \in stored : q <= p
         IN <<latest>> \o feed_posts_query(stored \ {latest})

\* select post_id, count(user_id) from likes where post_id in post_ids
\* group by post_id, as a dict.
likes_data_query(table, post_ids) ==
    [p \in {l[2] : l \in {k \in table : k[2] \in post_ids}} |->
        Cardinality({l \in table : l[2] = p})]

\* select post_id from likes where post_id in post_ids and user_id = user,
\* as a set.
feed_user_likes_query(table, post_ids, user) ==
    {l[2] : l \in {k \in table : k[2] \in post_ids /\ k[1] = user}}

\* The dict that get_feed builds for a post.
feed_item_data(post, likes_data, liked) ==
    [id |-> post,
     likes_count |-> IF post \in DOMAIN likes_data THEN likes_data[post] ELSE 0,
     is_liked |-> post \in liked]

\* posts_data: one validated PostFeedItem per post, in the order of posts.
posts_data(post_list, likes_data, liked) ==
    [i \in 1..Len(post_list) |->
        model_validate(PostFeedItem_fields, feed_item_data(post_list[i], likes_data, liked))]

\* No request for the feed.
FeedIdle == [pc |-> "idle", user |-> None, posts |-> <<>>, likes_data |-> <<>>,
             user_likes |-> {}, response |-> <<>>]

\* GET /posts/feed by the user.
get_feed(user) ==
    /\ feed.pc \in {"idle", "response"}
    /\ feed' = [FeedIdle EXCEPT !.pc = "posts", !.user = user]
    /\ UNCHANGED <<request, calls, comment_store, post_store, media_store, thread_store>>

\* get_feed: the posts are read; without posts there is no query for likes.
feed_reads_posts ==
    /\ feed.pc = "posts"
    /\ feed' = [feed EXCEPT !.posts = feed_posts_query(posts),
                            !.pc = IF posts = {} THEN "posts_data" ELSE "likes_data"]
    /\ UNCHANGED <<request, calls, comment_store, post_store, media_store, thread_store>>

\* get_feed: likes_data is read.
feed_reads_likes_data ==
    /\ feed.pc = "likes_data"
    /\ feed' = [feed EXCEPT !.likes_data = likes_data_query(likes, Range(feed.posts)),
                            !.pc = "user_likes"]
    /\ UNCHANGED <<request, calls, comment_store, post_store, media_store, thread_store>>

\* get_feed: user_likes is read.
feed_reads_user_likes ==
    /\ feed.pc = "user_likes"
    /\ feed' = [feed EXCEPT !.user_likes = feed_user_likes_query(likes, Range(feed.posts), feed.user),
                            !.pc = "posts_data"]
    /\ UNCHANGED <<request, calls, comment_store, post_store, media_store, thread_store>>

\* get_feed: the items are built and returned.
feed_returns ==
    /\ feed.pc = "posts_data"
    /\ feed' = [feed EXCEPT !.response = posts_data(feed.posts, feed.likes_data, feed.user_likes),
                            !.pc = "response"]
    /\ UNCHANGED <<request, calls, comment_store, post_store, media_store, thread_store>>

\* The database session whose requests like and unlike posts while the
\* feed is read.
Liker == 1

\* The stored posts, which nobody likes yet, and no request.
FeedInit ==
    /\ NoRequest
    /\ calls = <<>>
    /\ NoCommentStore
    /\ NoMediaStore
    /\ NoThreadStore
    /\ posts = 1..MaxPosts
    /\ likes = {}
    /\ sessions = [s \in Sessions |-> Idle]
    /\ feed = FeedIdle

FeedNext ==
    \/ \E user \in Users, post_id \in PostIds : like_post(Liker, user, post_id)
    \/ \E user \in Users, post_id \in PostIds : unlike_post(Liker, user, post_id)
    \/ like_post_checks(Liker)
    \/ like_post_commits(Liker)
    \/ unlike_post_checks(Liker)
    \/ unlike_post_commits(Liker)
    \/ \E user \in Users : get_feed(user)
    \/ feed_reads_posts
    \/ feed_reads_likes_data
    \/ feed_reads_user_likes
    \/ feed_returns

FeedSpec == FeedInit /\ [][FeedNext]_vars

\* The users who like the post.
PostLikers(post_id) == {u \in Users : <<u, post_id>> \in likes}

\* The table likes holds what the request for the feed read from it.
FeedTableAsRead ==
    /\ feed.posts = feed_posts_query(posts)
    /\ feed.likes_data = likes_data_query(likes, Range(feed.posts))
    /\ feed.user_likes = feed_user_likes_query(likes, Range(feed.posts), feed.user)

\* C22: after any likes and unlikes, every item of a returned feed that was
\* read from the table as they left it carries the number of users who like
\* the post as likes_count, and is_liked exactly when the user of the
\* request is one of them.
C22_FeedLikesInfo ==
    (feed.pc = "response" /\ FeedTableAsRead) =>
        \A i \in DOMAIN feed.response :
            LET item == feed.response[i]
            IN /\ "likes_count" \in DOMAIN item
               /\ item.likes_count = Cardinality(PostLikers(item.id))
               /\ "is_liked" \in DOMAIN item
               /\ item.is_liked = (feed.user \in PostLikers(item.id))

----------------------------------------------------------------------------
(* Media: upload_media and delete_media (utils/media.py) talk to the       *)
(* storage service, and update_post replaces the file of a post with       *)
(* them.  A string that the code looks into is a sequence of characters;   *)
(* a value that can be None is a sequence of no or one element.  The       *)
(* outcome of a call is a record: kind "return" with the value, or kind    *)
(* "HTTPException" with status_code and detail, or kind "Exception".       *)

\* "video/"
video_prefix == <<"v", "i", "d", "e", "o", "/">>

\* "application/octet-stream"
octet_stream ==
    <<"a", "p", "p", "l", "i", "c", "a", "t", "i", "o", "n", "/",
      "o", "c", "t", "e", "t", "-", "s", "t", "r", "e", "a", "m">>

\* str.startswith
startswith(string, prefix) ==
    /\ Len(string) >= Len(prefix)
    /\ SubSeq(string, 1, Len(prefix)) = prefix

\* file.content_type or "application/octet-stream": None and "" are false.
content_type_or_default(content_type) ==
    IF content_type = <<>> \/ content_type = << <<>> >> THEN octet_stream
    ELSE content_type[1]

\* file_type that is "video" wherever the content type names a video.
RECURSIVE file_type_video_anywhere(_)
file_type_video_anywhere(content_type) ==
    LET string == content_type_or_default(content_type)
    IN IF Len(string) < Len(video_prefix) THEN "image"
       ELSE IF startswith(string, video_prefix) THEN "video"
       ELSE file_type_video_anywhere(<<Tail(string)>>)

\* file_type = "video" if content_type.startswith("video/") else "image"
file_type(content_type) ==
    IF startswith(content_type_or_default(content_type), video_prefix)
    THEN "video" ELSE "image"

\* return value
Return(value) == [kind |-> "return", value |-> value]

\* raise HTTPException(status_code, detail)
HTTPException(status_code, detail) ==
    [kind |-> "HTTPException", status_code |-> status_code, detail |-> detail]

\* An exception that is no HTTPException is raised.
Exception == [kind |-> "Exception"]

\* The answers of the storage service to an upload: the response with its
\* http_status_code and, when it stored the file, the id of the new file;
\* or no response, when the call raises.
UploadRaises == [raises |-> TRUE]

UploadResponse(http_status_code, file_id) ==
    [raises |-> FALSE, http_status_code |-> http_status_code,
     url |-> <<"url", file_id>>, name |-> <<"name", file_id>>, file_id |-> file_id]

\* The try block of upload_media: the file is handed to the storage
\* service, and its answer is looked at.
upload_media_try(file, upload_result) ==
    IF upload_result.raises THEN Exception
    ELSE IF upload_result.http_status_code = HTTP_200_OK
         THEN Return([url |-> upload_result.url,
                      file_type |-> file_type(file.content_type),
                      file_name |-> upload_result.name,
                      file_id |-> upload_result.file_id])
         ELSE HTTPException(HTTP_502_BAD_GATEWAY, "Failed to upload file to storage service")

\* The except clauses of upload_media with 'except Exception' alone.
upload_media_except_exception_only(outcome) ==
    IF outcome.kind \in {"HTTPException", "Exception"}
    THEN HTTPException(HTTP_500_INTERNAL_SERVER_ERROR, "Media upload failed")
    ELSE outcome

\* The except clauses of upload_media: an HTTPException is raised again,
\* any other exception becomes the HTTPException 500.
upload_media_except(outcome) ==
    IF outcome.kind = "HTTPException" THEN outcome
    ELSE IF outcome.kind = "Exception"
         THEN HTTPException(HTTP_500_INTERNAL_SERVER_ERROR, "Media upload failed")
         ELSE outcome

upload_media(file, upload_result) ==
    upload_media_except(upload_media_try(file, upload_result))

\* delete_media without its except clause.
delete_media_no_except(delete_raises) ==
    IF delete_raises THEN Exception ELSE Return(TRUE)

\* delete_media: True when imagekit.delete_file completes, False when it
\* raises.
delete_media(delete_raises) ==
    IF delete_raises THEN Return(FALSE) ELSE Return(TRUE)

\* The content types of the uploaded files: none, "", "video/mp4",
\* "image/png", "video" and "audio/video/".
ContentTypes ==
    { <<>>,
      << <<>> >>,
      << <<"v", "i", "d", "e", "o", "/", "m", "p", "4">> >>,
      << <<"i", "m", "a", "g", "e", "/", "p", "n", "g">> >>,
      << <<"v", "i", "d", "e", "o">> >>,
      << <<"a", "u", "d", "i", "o", "/", "v", "i", "d", "e", "o", "/">> >> }

\* The values of the form field file of update_post: no file, a file
\* without a filename, and a file with a filename and any content type.
NoFile == <<>>

Files ==
    {NoFile, <<[filename |-> "", content_type |-> <<>>]>>}
        \cup {<<[filename |-> "upload", content_type |-> ct]>> : ct \in ContentTypes}

\* The status codes of the storage service's responses.
StorageStatuses == {HTTP_200_OK, HTTP_400_BAD_REQUEST, HTTP_500_INTERNAL_SERVER_ERROR}

\* The row of the post with the id post_id as upload_file stored it: the
\* file has the id of the post, and the users take turns as authors.
FirstPost(post_id) ==
    [user_id |-> ((post_id - 1) % MaxUsers) + 1,
     url |-> <<"url", post_id>>, file_type |-> "image",
     file_name |-> <<"name", post_id>>, file_id |-> post_id]

\* No request on a file.
MediaIdle ==
    [op |-> "none", pc |-> "idle", user |-> None, post_id |-> None, file |-> NoFile,
     deleted |-> <<>>, upload_result |-> <<>>, uploaded |-> <<>>,
     status |-> 0, detail |-> ""]

\* The request on a file with its answer.
MediaAnswered(r, status, detail) ==
    [r EXCEPT !.pc = "answered", !.status = status, !.detail = detail]

\* PATCH /posts/{post_id} by the user with the form field file.
update_post(user, post_id, file) ==
    /\ media.pc \in {"idle", "answered"}
    /\ media' = [MediaIdle EXCEPT !.op = "update_post", !.pc = "check", !.user = user,
                                  !.post_id = post_id, !.file = file]
    /\ UNCHANGED <<request, calls, comment_store, post_store, feed, imagekit, post_files, thread_store>>

\* update_post up to 'if file and ... file.filename': 404 when the post is
\* not stored, 403 when the user is not its author, on to the commit
\* without a file, on to delete_media with one.
update_post_checks ==
    /\ media.op = "update_post"
    /\ media.pc = "check"
    /\ media' =
        IF media.post_id \notin DOMAIN post_files
        THEN MediaAnswered(media, HTTP_404_NOT_FOUND, "Post not found")
        ELSE IF post_files[media.post_id].user_id # media.user
        THEN MediaAnswered(media, HTTP_403_FORBIDDEN, "You are not authorized to update this post")
        ELSE IF media.file # NoFile /\ media.file[1].filename # ""
        THEN [media EXCEPT !.pc = "delete_media"]
        ELSE [media EXCEPT !.pc = "commit"]
    /\ UNCHANGED <<request, calls, comment_store, post_store, feed, imagekit, post_files, thread_store>>

\* update_post: delete_media(post.file_id, post.file_name).  The storage
\* service deletes the file, or imagekit.delete_file raises and the file
\* stays; a file that is not stored cannot be deleted.  An exception that
\* leaves delete_media is answered with 500.
update_post_deletes_media ==
    /\ media.op = "update_post"
    /\ media.pc = "delete_media"
    /\ \E delete_raises \in BOOLEAN :
        LET file_id == post_files[media.post_id].file_id
            outcome == delete_media(delete_raises)
        IN /\ ~delete_raises => file_id \in imagekit.files
           /\ imagekit' = IF delete_raises THEN imagekit
                          ELSE [imagekit EXCEPT !.files = @ \ {file_id}]
           /\ media' = IF outcome.kind = "return"
                       THEN [media EXCEPT !.deleted = <<outcome.value>>, !.pc = "upload_media"]
                       ELSE MediaAnswered([media EXCEPT !.deleted = <<outcome>>],
                                          HTTP_500_INTERNAL_SERVER_ERROR, "Internal server error")
    /\ UNCHANGED <<request, calls, comment_store, post_store, feed, post_files, thread_store>>

\* The storage service stores a file under a new id, as long as it takes
\* files, and answers 200; or it stores nothing and answers another status;
\* or the call raises.
Uploads(kit) ==
    {<<UploadRaises, kit>>}
        \cup {<<UploadResponse(st, None), kit>> : st \in StorageStatuses \ {HTTP_200_OK}}
        \cup (IF kit.issued < MaxPosts + MaxUploads
              THEN {<<UploadResponse(HTTP_200_OK, kit.issued + 1),
                      [files |-> kit.files \cup {kit.issued + 1}, issued |-> kit.issued + 1]>>}
              ELSE {})

\* update_post: upload_media(file).  An HTTPException that leaves
\* upload_media leaves update_post as it is, through 'except HTTPException:
\* raise'; any other exception is answered with 500.
update_post_uploads_media ==
    /\ media.op = "update_post"
    /\ media.pc = "upload_media"
    /\ \E up \in Uploads(imagekit) :
        LET outcome == upload_media(media.file[1], up[1])
            r == [media EXCEPT !.upload_result = <<up[1]>>, !.uploaded = <<outcome>>]
        IN /\ imagekit' = up[2]
           /\ media' = IF outcome.kind = "return" THEN [r EXCEPT !.pc = "commit"]
                       ELSE IF outcome.kind = "HTTPException"
                       THEN MediaAnswered(r, outcome.status_code, outcome.detail)
                       ELSE MediaAnswered(r, HTTP_500_INTERNAL_SERVER_ERROR, "Internal server error")
    /\ UNCHANGED <<request, calls, comment_store, post_store, feed, post_files, thread_store>>

\* update_post: the new file details are set on the post, if a file was
\* uploaded, and the session commits.
update_post_commits ==
    /\ media.op = "update_post"
    /\ media.pc = "commit"
    /\ post_files' =
        IF media.uploaded = <<>> THEN post_files
        ELSE [post_files EXCEPT ![media.post_id] =
                [@ EXCEPT !.url = media.uploaded[1].value.url,
                          !.file_type = media.uploaded[1].value.file_type,
                          !.file_name = media.uploaded[1].value.file_name,
                          !.file_id = media.uploaded[1].value.file_id]]
    /\ media' = MediaAnswered(media, HTTP_200_OK, "")
    /\ UNCHANGED <<request, calls, comment_store, post_store, feed, imagekit, thread_store>>

\* The stored posts with their files in the storage service, and no
\* request.
MediaInit ==
    /\ NoRequest
    /\ calls = <<>>
    /\ NoCommentStore
    /\ NoPostStore
    /\ NoFeed
    /\ NoThreadStore
    /\ imagekit = [files |-> 1..MaxPosts, issued |-> MaxPosts]
    /\ post_files = [p \in 1..MaxPosts |-> FirstPost(p)]
    /\ media = MediaIdle

MediaNext ==
    \/ \E user \in Users, post_id \in PostIds, file \in Files : update_post(user, post_id, file)
    \/ update_post_checks
    \/ update_post_deletes_media
    \/ update_post_uploads_media
    \/ update_post_commits

MediaSpec == MediaInit /\ [][MediaNext]_vars

----------------------------------------------------------------------------
(* Uploading and deleting a file.                                          *)

\* The request has called upload_media, and the storage service answered
\* with the status.
UploadAnswered(statuses) ==
    /\ media.upload_result # <<>>
    /\ ~media.upload_result[1].raises
    /\ media.upload_result[1].http_status_code \in statuses

\* C23: when the storage service answers an upload with a status other than
\* 200, upload_media raises the HTTPException 502 "Failed to upload file to
\* storage service", and the request is answered with it, not with 500.
C23_UploadFailureIs502 ==
    UploadAnswered(StorageStatuses \ {HTTP_200_OK}) =>
        /\ media.uploaded = <<HTTPException(HTTP_502_BAD_GATEWAY, "Failed to upload file to storage service")>>
        /\ media.pc = "answered"
        /\ media.status = HTTP_502_BAD_GATEWAY
        /\ media.detail = "Failed to upload file to storage service"

\* The storage service answered the upload with 500, and the request was
\* answered 502.
C23_Witness ==
    /\ UploadAnswered({HTTP_500_INTERNAL_SERVER_ERROR})
    /\ media.pc = "answered"
    /\ media.status = HTTP_502_BAD_GATEWAY

\* The content type of the file of the request is there and starts with
\* "video/".
VideoContentType ==
    /\ media.file[1].content_type # <<>>
    /\ Len(media.file[1].content_type[1]) >= 6
    /\ \A i \in 1..6 : media.file[1].content_type[1][i] = video_prefix[i]

\* C24: when the storage service answers an upload with 200, upload_media
\* returns the url, the name and the file_id of the answer, with the
\* file_type "video" when the content type of the file starts with "video/"
\* and "image" otherwise.
C24_UploadResult ==
    UploadAnswered({HTTP_200_OK}) =>
        /\ media.uploaded[1].kind = "return"
        /\ media.uploaded[1].value.url = media.upload_result[1].url
        /\ media.uploaded[1].value.file_name = media.upload_result[1].name
        /\ media.uploaded[1].value.file_id = media.upload_result[1].file_id
        /\ media.uploaded[1].value.file_type = (IF VideoContentType THEN "video" ELSE "image")

\* A post has the file type "video" from an upload, and the upload of a
\* file without a content type has returned the file type "image".
C24_Witness ==
    /\ UploadAnswered({HTTP_200_OK})
    /\ media.file[1].content_type = <<>>
    /\ media.uploaded[1].value.file_type = "image"
    /\ \E p \in DOMAIN post_files : post_files[p].file_type = "video"

\* C25: delete_media returns to update_post, which goes on to the upload:
\* with True when the storage service has deleted the file of the post, with
\* False when the call of the storage service raised and the files are as
\* they were.
C25_DeleteMediaNeverRaises ==
    [][(media.pc = "delete_media" /\ media' # media) =>
        /\ media'.pc = "upload_media"
        /\ media'.deleted \in {<<TRUE>>, <<FALSE>>}
        /\ media'.deleted = <<TRUE>> =>
                /\ post_files[media.post_id].file_id \in imagekit.files
                /\ imagekit'.files = imagekit.files \ {post_files[media.post_id].file_id}
        /\ media'.deleted = <<FALSE>> => imagekit' = imagekit]_vars

\* delete_media has returned False for a file that the storage service
\* still holds, and the request went on.
C25_Witness ==
    /\ media.deleted = <<FALSE>>
    /\ media.pc = "upload_media"
    /\ post_files[media.post_id].file_id \in imagekit.files

\* C29: when an update_post has been answered with an error, every stored
\* post references a file that the storage service holds.
C29_UpdatePostAllOrNothing ==
    (/\ media.op = "update_post"
     /\ media.pc = "answered"
     /\ media.status # HTTP_200_OK) =>
        \A p \in DOMAIN post_files : post_files[p].file_id \in imagekit.files

----------------------------------------------------------------------------
(* Comments: create_comment, delete_comment and update_comment in two      *)
(* database sessions.  A handler looks the rows up and commits afterwards; *)
(* the other session can run between the two.  Ids are not used again.     *)
(* The foreign key comments.parent_id is enforced by the database or not   *)
(* (SQLite does not enforce foreign keys unless the connection turns them  *)
(* on, which the code does not), so a commit that breaks it is rejected    *)
(* or goes through.                                                        *)

\* The posts of the comments: the post of the first comment and another.
ThreadPosts == {1, 2}

\* The ids that requests name for posts: those of the posts, and one more.
ThreadPostIds == ThreadPosts \cup {3}

\* The users who write comments: the author of the first comment and
\* another.
Authors == {1, 2}

\* The ids that requests name for comments: those that can be given out; an
\* id names no comment before it is given out and after the comment is
\* deleted.
ThreadCommentIds == 1..(MaxReplies + 1)

\* session.get(Comment, id): the row or None.
session_get(rows, id) ==
    IF \E c \in rows : c.id = id THEN <<CHOOSE c \in rows : c.id = id>> ELSE <<>>

\* An editor without a request.
EditorIdle ==
    [op |-> "none", pc |-> "idle", user |-> None, post_id |-> None, comment_id |-> None,
     content |-> "", marked |-> {}, status |-> 0, detail |-> ""]

\* The request with its answer; the session is closed, its locals are gone.
EditorAnswered(r, status, detail) ==
    [EditorIdle EXCEPT !.op = r.op, !.pc = "answered", !.status = status, !.detail = detail]

\* create_comment up to session.add: 404 when the post is not stored, 404
\* when the parent is not stored, 400 when the parent is a comment of
\* another post, on to the commit otherwise.
create_comment_check(r, stored, rows) ==
    IF r.post_id \notin stored THEN EditorAnswered(r, HTTP_404_NOT_FOUND, "Post not found")
    ELSE IF r.comment_id # None
    THEN LET parent == session_get(rows, r.comment_id)
         IN IF parent = <<>>
            THEN EditorAnswered(r, HTTP_404_NOT_FOUND, "Parent comment not found")
            ELSE IF parent[1].post_id # r.post_id
            THEN EditorAnswered(r, HTTP_400_BAD_REQUEST, "Parent comment belongs to a different post")
            ELSE [r EXCEPT !.pc = "commit"]
    ELSE [r EXCEPT !.pc = "commit"]

\* The check of the author without the comparison of the user ids.
author_check_any_user(r, rows, detail) ==
    IF session_get(rows, r.comment_id) = <<>>
    THEN EditorAnswered(r, HTTP_404_NOT_FOUND, "Comment not found")
    ELSE [r EXCEPT !.pc = "commit"]

\* delete_comment and update_comment up to their change: 404 when the
\* comment is not stored, 403 when the user is not its author.
author_check(r, rows, detail) ==
    LET comment == session_get(rows, r.comment_id)
    IN IF comment = <<>>
       THEN EditorAnswered(r, HTTP_404_NOT_FOUND, "Comment not found")
       ELSE IF comment[1].user_id # r.user
       THEN EditorAnswered(r, HTTP_403_FORBIDDEN, detail)
       ELSE [r EXCEPT !.pc = "commit"]

\* The cascade of session.delete along Comment.children: the ids of the
\* comments in marked and of all their replies, as the rows are stored.
RECURSIVE cascade(_, _)
cascade(rows, marked) ==
    LET replies == {c.id : c \in {x \in rows : x.parent_id \in marked}}
    IN IF replies \subseteq marked THEN marked ELSE cascade(rows, marked \cup replies)

\* delete_comment up to its commit: the checks, then session.delete, which
\* marks the comment and its replies.
delete_comment_check(r, rows) ==
    LET checked == author_check(r, rows, "Not authorized to delete this comment")
    IN IF checked.pc = "answered" THEN checked
       ELSE [checked EXCEPT !.marked = cascade(rows, {r.comment_id})]

\* update_comment up to its commit.
update_comment_check(r, rows) ==
    author_check(r, rows, "Not authorized to update this comment")

\* The creations that are under way.
Creating == {s \in DOMAIN editors : editors[s].op = "create_comment" /\ editors[s].pc # "answered"}

\* A request reaches its handler in a session that runs no request.
Edits(s, r) ==
    /\ editors[s].pc \in {"idle", "answered"}
    /\ editors' = [editors EXCEPT ![s] = [r EXCEPT !.pc = "check"]]
    /\ UNCHANGED <<request, calls, comment_store, post_store, feed, media_store, thread>>

\* POST /posts/{post_id}/comments by the user, as a reply to parent_id when
\* that is not None.
create_comment(s, user, post_id, parent_id) ==
    /\ thread.issued + Cardinality(Creating) < MaxReplies + 1
    /\ post_id \in ThreadPosts \/ parent_id = None
    /\ Edits(s, [EditorIdle EXCEPT !.op = "create_comment", !.user = user, !.post_id = post_id,
                                   !.comment_id = parent_id, !.content = "new"])

\* DELETE /comments/{comment_id} by the user.
delete_comment(s, user, comment_id) ==
    /\ user \in Authors
    /\ Edits(s, [EditorIdle EXCEPT !.op = "delete_comment", !.user = user, !.comment_id = comment_id])

\* PATCH /comments/{comment_id} by the user.
update_comment(s, user, comment_id) ==
    /\ comment_id \in ThreadCommentIds
    /\ Edits(s, [EditorIdle EXCEPT !.op = "update_comment", !.user = user, !.comment_id = comment_id,
                                   !.content = "edited"])

\* The session s is at the place of its handler of op.
At(s, op, place) ==
    /\ editors[s].op = op
    /\ editors[s].pc = place

create_comment_checks(s) ==
    /\ At(s, "create_comment", "check")
    /\ editors' = [editors EXCEPT ![s] = create_comment_check(@, posts, thread.rows)]
    /\ UNCHANGED <<request, calls, comment_store, post_store, feed, media_store, thread>>

delete_comment_checks(s) ==
    /\ At(s, "delete_comment", "check")
    /\ editors' = [editors EXCEPT ![s] = delete_comment_check(@, thread.rows)]
    /\ UNCHANGED <<request, calls, comment_store, post_store, feed, media_store, thread>>

update_comment_checks(s) ==
    /\ At(s, "update_comment", "check")
    /\ editors' = [editors EXCEPT ![s] = update_comment_check(@, thread.rows)]
    /\ UNCHANGED <<request, calls, comment_store, post_store, feed, media_store, thread>>

\* The row that create_comment adds.
NewComment(r, id) ==
    [id |-> id, user_id |-> r.user, post_id |-> r.post_id, parent_id |-> r.comment_id,
     content |-> r.content]

\* The table with the row of the request r added.
Inserted(r) ==
    [rows |-> thread.rows \cup {NewComment(r, thread.issued + 1)}, issued |-> thread.issued + 1]

\* session.add(comment); await session.commit(): the row is inserted.
create_comment_commits(s) ==
    /\ At(s, "create_comment", "commit")
    /\ editors[s].comment_id # None => session_get(thread.rows, editors[s].comment_id) # <<>>
    /\ thread' = Inserted(editors[s])
    /\ editors' = [editors EXCEPT ![s] = EditorAnswered(@, HTTP_201_CREATED, "")]
    /\ UNCHANGED <<request, calls, comment_store, post_store, feed, media_store>>

\* The commit of a reply whose parent the other session has deleted since
\* the check: the database rejects the row, and the handler answers the
\* IntegrityError with 500, or it does not enforce the foreign key and
\* inserts the row.
create_comment_commit_parent_gone(s) ==
    /\ At(s, "create_comment", "commit")
    /\ editors[s].comment_id # None
    /\ session_get(thread.rows, editors[s].comment_id) = <<>>
    /\ \/ /\ thread' = thread
          /\ editors' = [editors EXCEPT ![s] = EditorAnswered(@, HTTP_500_INTERNAL_SERVER_ERROR, "IntegrityError")]
       \/ /\ thread' = Inserted(editors[s])
          /\ editors' = [editors EXCEPT ![s] = EditorAnswered(@, HTTP_201_CREATED, "")]
    /\ UNCHANGED <<request, calls, comment_store, post_store, feed, media_store>>

\* The stored replies to the marked comments that are not marked: they were
\* created after session.delete of the session s.
NewReplies(s) ==
    {c \in thread.rows : c.parent_id \in editors[s].marked /\ c.id \notin editors[s].marked}

\* The marked comments are all stored still.
MarkedStored(s) == \A id \in editors[s].marked : session_get(thread.rows, id) # <<>>

\* The tables without the marked comments and without their likes.
Deleted(s) ==
    /\ thread' = [thread EXCEPT !.rows = {c \in @ : c.id \notin editors[s].marked}]
    /\ comment_likes' = {l \in comment_likes : l[2] \notin editors[s].marked}
    /\ editors' = [editors EXCEPT ![s] = EditorAnswered(@, HTTP_200_OK, "Comment deleted successfully")]

\* The commit fails, and the handler answers 500.
Refused(s, detail) ==
    /\ editors' = [editors EXCEPT ![s] = EditorAnswered(@, HTTP_500_INTERNAL_SERVER_ERROR, detail)]
    /\ UNCHANGED <<thread, comment_likes>>

\* await session.commit() of delete_comment: the marked comments and their
\* likes are deleted.
delete_comment_commits(s) ==
    /\ At(s, "delete_comment", "commit")
    /\ NewReplies(s) = {}
    /\ MarkedStored(s)
    /\ Deleted(s)
    /\ UNCHANGED <<request, calls, comment_table, current_active_user, post_store, feed, media_store>>

\* The commit of a delete some of whose comments the other session has
\* deleted since: the DELETE matches fewer rows, which the session reports
\* with a warning or with StaleDataError.
delete_comment_commit_rows_gone(s) ==
    /\ At(s, "delete_comment", "commit")
    /\ NewReplies(s) = {}
    /\ ~MarkedStored(s)
    /\ \/ Deleted(s)
       \/ Refused(s, "StaleDataError")
    /\ UNCHANGED <<request, calls, comment_table, current_active_user, post_store, feed, media_store>>

\* The commit of a delete of a comment that has got a reply since
\* session.delete: the database rejects the DELETE of the parent, or it does
\* not enforce the foreign key and deletes the marked comments.
delete_comment_commit_new_reply(s) ==
    /\ At(s, "delete_comment", "commit")
    /\ NewReplies(s) # {}
    /\ \/ Deleted(s)
       \/ Refused(s, "IntegrityError")
    /\ UNCHANGED <<request, calls, comment_table, current_active_user, post_store, feed, media_store>>

\* comment.content = comment_in.content; await session.commit()
update_comment_commits(s) ==
    /\ At(s, "update_comment", "commit")
    /\ session_get(thread.rows, editors[s].comment_id) # <<>>
    /\ thread' = [thread EXCEPT !.rows =
                    {IF c.id = editors[s].comment_id THEN [c EXCEPT !.content = editors[s].content] ELSE c :
                     c \in @}]
    /\ editors' = [editors EXCEPT ![s] = EditorAnswered(@, HTTP_200_OK, "")]
    /\ UNCHANGED <<request, calls, comment_store, post_store, feed, media_store>>

\* The commit of an update of a comment that the other session has deleted
\* since the check: the UPDATE or the refresh finds no row.
update_comment_commit_row_gone(s) ==
    /\ At(s, "update_comment", "commit")
    /\ session_get(thread.rows, editors[s].comment_id) = <<>>
    /\ editors' = [editors EXCEPT ![s] = EditorAnswered(@, HTTP_500_INTERNAL_SERVER_ERROR, "StaleDataError")]
    /\ UNCHANGED <<request, calls, comment_store, post_store, feed, media_store, thread>>

\* The posts, a first comment of user 1 on post 1 that the users like, and
\* two sessions without a request.
ThreadInit ==
    /\ NoRequest
    /\ calls = <<>>
    /\ comment_table = <<>>
    /\ current_active_user = None
    /\ NoFeed
    /\ NoMediaStore
    /\ posts = ThreadPosts
    /\ likes = {}
    /\ sessions = <<>>
    /\ thread = [rows |-> {[id |-> 1, user_id |-> 1, post_id |-> 1, parent_id |-> None,
                           content |-> "first"]},
                 issued |-> 1]
    /\ comment_likes = {<<u, 1>> : u \in Authors}
    /\ editors = [s \in Sessions |-> EditorIdle]

ThreadNext ==
    \E s \in Sessions :
        \/ \E user \in Authors, post_id \in ThreadPostIds, parent_id \in {None} \cup ThreadCommentIds :
                create_comment(s, user, post_id, parent_id)
        \/ \E user \in Authors, comment_id \in ThreadCommentIds : delete_comment(s, user, comment_id)
        \/ \E user \in Authors, comment_id \in ThreadCommentIds : update_comment(s, user, comment_id)
        \/ create_comment_checks(s)
        \/ delete_comment_checks(s)
        \/ update_comment_checks(s)
        \/ create_comment_commits(s)
        \/ create_comment_commit_parent_gone(s)
        \/ delete_comment_commits(s)
        \/ delete_comment_commit_rows_gone(s)
        \/ delete_comment_commit_new_reply(s)
        \/ update_comment_commits(s)
        \/ update_comment_commit_row_gone(s)

ThreadSpec == ThreadInit /\ [][ThreadNext]_vars

----------------------------------------------------------------------------
(* The parents and the authors of the stored comments.                     *)

\* C27: every stored comment with a parent_id has a stored parent that is a
\* comment of the same post.
C27_ParentsStored ==
    \A c \in thread.rows :
        c.parent_id # None =>
            \E parent \in thread.rows :
                /\ parent.id = c.parent_id
                /\ parent.post_id = c.post_id

\* The session s is at the check of a delete_comment or an update_comment
\* of a stored comment whose author is another user, and runs it.
ChecksForeignComment(s) ==
    /\ editors[s].op \in {"delete_comment", "update_comment"}
    /\ editors[s].pc = "check"
    /\ editors'[s] # editors[s]
    /\ session_get(thread.rows, editors[s].comment_id) # <<>>
    /\ session_get(thread.rows, editors[s].comment_id)[1].user_id # editors[s].user

\* "Not authorized to delete this comment" or "... update ..."
NotAuthorized(op) ==
    IF op = "delete_comment" THEN "Not authorized to delete this comment"
    ELSE "Not authorized to update this comment"

\* C28: a delete_comment or update_comment of a comment by a user who is not
\* its author is answered 403 at its check and leaves the comments and
\* their likes as they are; a request that is on its way to the commit is
\* one of the author of its comment.
C28_OnlyAuthorChanges ==
    /\ [](\A s \in Sessions :
            (/\ editors[s].op \in {"delete_comment", "update_comment"}
             /\ editors[s].pc = "commit"
             /\ session_get(thread.rows, editors[s].comment_id) # <<>>) =>
                session_get(thread.rows, editors[s].comment_id)[1].user_id = editors[s].user)
    /\ [][\A s \in Sessions :
            ChecksForeignComment(s) =>
                /\ editors'[s] = EditorAnswered(editors[s], HTTP_403_FORBIDDEN, NotAuthorized(editors[s].op))
                /\ thread' = thread
                /\ comment_likes' = comment_likes]_vars

\* A delete_comment and an update_comment were answered 403, and the first
\* comment is stored with its content, its likes and a reply.
C28_Witness ==
    \E s, t \in Sessions :
        /\ editors[s] = EditorAnswered([op |-> "delete_comment"], HTTP_403_FORBIDDEN,
                                       "Not authorized to delete this comment")
        /\ editors[t] = EditorAnswered([op |-> "update_comment"], HTTP_403_FORBIDDEN,
                                       "Not authorized to update this comment")
        /\ \E c \in thread.rows : c.id = 1 /\ c.content = "first"
        /\ \E c \in thread.rows : c.parent_id = 1
        /\ comment_likes = {<<u, 1>> : u \in Authors}

====
